---- MODULE Spec2Model ----
(***************************************************************************)
(* A model of mcpbridge's tool-calling orchestration: the Conversation     *)
(* message log, the OpenAI and Gemini response parsers, the tool-result    *)
(* parser, the LLMExecutor with the configuration it reads, the tool       *)
(* converters, the provider clients' HTTP error mapping, the configuration *)
(* parser, the Session loop and the ToolExecutor's namespaced routing.     *)
(* Each component is also driven on its own, by a specification of its own.*)
(*                                                                         *)
(* Text is a sequence of one-character strings, so that joining and        *)
(* splitting are computed and not assumed.  Python's None for an optional  *)
(* text is the one-element sequence None.                                  *)
(*                                                                         *)
(* Session.start and ToolExecutor are written against members that their   *)
(* collaborators' sources do not define (StdioClient.call_tool and close,  *)
(* ctx.mcp_server, OpenAIParser._convert_openai_tool_call_to_mcp, the      *)
(* tool_call_id parameter of ToolResultParser.parse, the tool_converter    *)
(* parameter of OpenAIClient and of BaseLLMClient,                         *)
(* Command.get_n_level_command).  Those members are                        *)
(* modelled from the collaborators' contracts (a client that returns a raw *)
(* result or fails, a converter that raises on a missing key or on bad     *)
(* JSON); every other definition follows the source.  Whether the client   *)
(* has a close method is left open, as Session.start itself tests it.      *)
(***************************************************************************)
EXTENDS Integers, Sequences, FiniteSets, TLC

VARIABLES
    pc,              \* position of Session.start
    conv,            \* Conversation.messages
    tools_info,      \* the tool list discovered by Session.start
    llm_response,    \* Session.start's local llm_response
    completions,     \* log: one record per _handle_llm_interaction call
    tool_log,        \* log: one record per stdio_client.call_tool call
    discoveries,     \* number of stdio_client.get_tools calls
    client_has_close,\* hasattr(stdio_client, 'close')
    llm_clients,     \* the LLM clients _handle_llm_interaction built and closed
    client_closed,   \* stdio_client.close() has been awaited
    error,           \* the exception Session.start raised, or "none"
    tools_config,    \* Context.tools_config: the configured server names
    server_tools,    \* what each tool server's get_tools returns
    clients,         \* ToolExecutor._clients: server names in dict order
    all_tools_def,   \* the last catalog get_tools_definition returned
    request,         \* the last tool_call["name"] given to call_tool
    call_request,    \* the last tool_call given to call_tool: its id and arguments
    invocation,      \* the client.call_tool call the last call_tool made, if any
    definitions_got, \* number of get_tools_definition calls made
    n_requests,      \* number of ToolExecutor.call_tool calls made
    routed,          \* the client invocation the last call_tool made, if any
    route_error,     \* the error the last call_tool raised, if any
    route_result,    \* what the last call_tool returned, if anything
    client_calls,    \* number of client.call_tool invocations
    get_tools_calls, \* the clients the last get_tools_definition asked, in order
    env,             \* the process environment LLMConfig reads
    llm_client,      \* LLMExecutor._client
    builds,          \* number of client constructions attempted
    n_completions,   \* number of LLMExecutor.get_completion calls
    completion,      \* how the last get_completion ended
    chat_call,       \* the chat_completion call the last get_completion made, if any
    chat_calls,      \* number of chat_completion calls
    resp_in,         \* the provider and the response handed to its parser
    need_out,        \* how need_tools_call ended on resp_in, if called
    prepare_out,     \* how prepare_tools_call ended on resp_in, if called
    raw_in,          \* the raw tool result handed to ToolResultParser.parse
    parse_out,       \* how parse ended on raw_in, if called
    tools_in,        \* the provider and the standard tool definitions given to it
    convert_out,     \* how the converter's convert_tools ended on tools_in, if called
    request_out,     \* the tools of the request chat_completion built from tools_in
    http_in,         \* the provider and the non-success HTTP response it received
    http_out,        \* what _handle_error_response raised on http_in, if called
    root_cmd,        \* Context.root_cmd: the command chain and its 'tools' option
    ctx_tools_config,\* Context.tools_config as the parser fills it
    run_out,         \* how ContextManager.run went: parse, Session, start
    executor_clients \* the ToolExecutor._clients built from ctx_tools_config

sessionVars == <<pc, tools_info, llm_response, completions, tool_log,
                 discoveries, client_has_close, llm_clients, client_closed, error>>
routeVars == <<tools_config, server_tools, clients, all_tools_def, request,
               call_request, invocation, definitions_got,
               n_requests, routed, route_error, route_result, client_calls,
               get_tools_calls>>
vars == <<pc, conv, tools_info, llm_response, completions, tool_log,
          discoveries, client_has_close, llm_clients, client_closed, error,
          tools_config, server_tools, clients, all_tools_def, request,
          call_request, invocation, definitions_got,
          n_requests, routed, route_error, route_result, client_calls,
          get_tools_calls,
          env, llm_client, builds, n_completions, completion, chat_call, chat_calls,
          resp_in, need_out, prepare_out, raw_in, parse_out,
          tools_in, convert_out, request_out, http_in, http_out,
          root_cmd, ctx_tools_config, run_out, executor_clients>>
execVars == <<env, llm_client, builds, n_completions, completion, chat_call, chat_calls>>
parserVars == <<resp_in, need_out, prepare_out>>
resultVars == <<raw_in, parse_out>>
converterVars == <<tools_in, convert_out, request_out>>
httpVars == <<http_in, http_out>>
contextVars == <<root_cmd, ctx_tools_config, run_out, executor_clients>>
adapterVars == <<converterVars, httpVars, contextVars>>
unitVars == <<execVars, parserVars, resultVars, adapterVars>>

----------------------------------------------------------------------------
(* Bounds *)

\* most tool calls one scripted response carries
MaxCalls == 2
\* most messages a free-standing Conversation is grown to
MaxMsgs == 4
\* most configured tool servers
MaxServers == 2
\* most tools one server's catalog lists
MaxTools == 2
\* most call_tool requests made of one ToolExecutor
MaxRequests == 2
\* most get_tools_definition calls made of one ToolExecutor
MaxDiscoveries == 2
\* most get_completion calls made of one LLMExecutor
MaxCompletions == 3
\* most content items of one raw tool result
MaxItems == 2

----------------------------------------------------------------------------
(* Values *)

None == <<"None">>
Empty == <<>>

RECURSIVE SeqsUpTo(_, _)
SeqsUpTo(S, n) ==
    IF n = 0 THEN {<<>>}
    ELSE LET shorter == SeqsUpTo(S, n - 1)
         IN shorter \cup {Append(s, x) : s \in {t \in shorter : Len(t) = n - 1}, x \in S}

RECURSIVE Flatten(_)
Flatten(ss) == IF ss = <<>> THEN <<>> ELSE Head(ss) \o Flatten(Tail(ss))

Map(f(_), s) == [i \in 1..Len(s) |-> f(s[i])]

\* " ".join(parts)
RECURSIVE JoinSpace(_)
JoinSpace(parts) ==
    IF parts = <<>> THEN <<>>
    ELSE IF Len(parts) = 1 THEN parts[1]
    ELSE parts[1] \o <<" ">> \o JoinSpace(Tail(parts))

----------------------------------------------------------------------------
(* core/message_models.py and core/conversation.py *)

\* A provider tool call as it arrives in choices[0].message.tool_calls.
\* form: "ok" (id, function.name and function.arguments present, arguments
\* valid JSON), "badjson" (all keys present, arguments not valid JSON),
\* "nokey" (a required key is absent).
CallIds == {"c1", "c2"}
ToolNames == {"t1"}
Forms == {"ok", "badjson", "nokey"}
RawCalls == [id : CallIds, name : ToolNames, form : Forms]

\* ToolCall(BaseModel): id, function.name and function.arguments are required
\* strings; an entry lacking one is rejected by validation.
ToolCallValid(tc) == tc.form # "nokey"

SystemMessage(content) ==
    [role |-> "system", content |-> content, tool_calls |-> <<>>,
     tool_call_id |-> "", name |-> ""]
UserMessage(content) ==
    [role |-> "user", content |-> content, tool_calls |-> <<>>,
     tool_call_id |-> "", name |-> ""]
\* tool_calls = <<>> stands for tool_calls=None: the field is only ever set
\* from a non-empty list.
AssistantMessage(content, tool_calls) ==
    [role |-> "assistant", content |-> content, tool_calls |-> tool_calls,
     tool_call_id |-> "", name |-> ""]
ToolCallResult(tool_call_id, name, content) ==
    [role |-> "tool", content |-> content, tool_calls |-> <<>>,
     tool_call_id |-> tool_call_id, name |-> name]

\* Conversation.__init__
NewConversation(system_prompt) ==
    IF system_prompt # Empty THEN <<SystemMessage(system_prompt)>> ELSE <<>>

add_user_message(msgs, content) == Append(msgs, UserMessage(content))

\* The LLM responses.  kind: "none" (no completion), "nochoices" (not a
\* mapping with a non-empty choices list), "nomessage" (choices[0] has no
\* message key), "message".  has_tool_calls: the key tool_calls is present;
\* present with tool_calls = <<>> covers both [] and null.
NoResponse ==
    [kind |-> "none", content |-> None, has_tool_calls |-> FALSE, tool_calls |-> <<>>]
NoChoices ==
    [kind |-> "nochoices", content |-> None, has_tool_calls |-> FALSE, tool_calls |-> <<>>]
NoMessage ==
    [kind |-> "nomessage", content |-> None, has_tool_calls |-> FALSE, tool_calls |-> <<>>]
MessageResponses ==
    {[kind |-> "message", content |-> c, has_tool_calls |-> h, tool_calls |-> t] :
        c \in {None, <<"h", "i">>}, h \in BOOLEAN, t \in SeqsUpTo(RawCalls, MaxCalls)}
Responses ==
    {NoResponse, NoChoices, NoMessage} \cup
    {r \in MessageResponses :
        /\ (~r.has_tool_calls => r.tool_calls = <<>>)
        /\ (r.content = None => r.has_tool_calls)}

HasChoices(response) == response.kind \in {"nomessage", "message"}

\* add_assistant_message: the exception it raises, or "none"
add_assistant_message_error(response) ==
    IF ~HasChoices(response) THEN "none"
    ELSE IF response.kind = "nomessage" THEN "KeyError"
    ELSE IF response.has_tool_calls /\ response.tool_calls # <<>>
            /\ \E i \in 1..Len(response.tool_calls) : ~ToolCallValid(response.tool_calls[i])
         THEN "ValidationError"
    ELSE "none"

\* add_assistant_message: the message list afterwards
add_assistant_message(msgs, response) ==
    IF ~HasChoices(response) \/ add_assistant_message_error(response) # "none" THEN msgs
    ELSE IF response.has_tool_calls /\ response.tool_calls # <<>>
         THEN Append(msgs, AssistantMessage(response.content, response.tool_calls))
    ELSE Append(msgs, AssistantMessage(response.content, <<>>))

\* a variant that files the tool message at the head of the list
add_tool_result_at_head(msgs, tool_call_id, name, content) ==
    <<ToolCallResult(tool_call_id, name, content)>> \o msgs

\* a variant that hands the name and the id over in the other order
add_tool_result_name_first(msgs, tool_call_id, name, content) ==
    Append(msgs, ToolCallResult(name, tool_call_id, content))

add_tool_result(msgs, tool_call_id, name, content) ==
    Append(msgs, ToolCallResult(tool_call_id, name, content))

\* message.model_dump(exclude_none=True): the keys kept and their values
model_dump(m) ==
    [keys |-> CASE m.role = "tool" -> {"role", "tool_call_id", "name", "content"}
                [] m.role = "assistant" ->
                     {"role"} \cup (IF m.content # None THEN {"content"} ELSE {})
                              \cup (IF m.tool_calls # <<>> THEN {"tool_calls"} ELSE {})
                [] OTHER -> {"role", "content"},
     value |-> m]

get_messages(msgs) == Map(model_dump, msgs)

----------------------------------------------------------------------------
(* llm/openai/parser.py *)

\* a variant that asks for tools whenever it cannot read the response
need_tools_call_default_true(response) ==
    IF HasChoices(response) THEN response.has_tool_calls ELSE TRUE

\* need_tools_call returns True, False or (falling off the end) None; the
\* Session tests its truth value.
need_tools_call(response) ==
    IF HasChoices(response) THEN response.has_tool_calls ELSE FALSE

\* need_tools_call raises KeyError when choices[0] has no message
need_tools_call_error(response) ==
    IF response.kind = "nomessage" THEN "KeyError" ELSE "none"

\* _convert_openai_tool_call_to_mcp: the exception it raises, or "none"
convert_tool_call_error(tc) ==
    CASE tc.form = "nokey" -> "KeyError"
      [] tc.form = "badjson" -> "JSONDecodeError"
      [] OTHER -> "none"

\* _convert_openai_tool_call_to_mcp: {id, name, arguments}, arguments parsed
convert_tool_call(tc) == [id |-> tc.id, name |-> tc.name, arguments |-> "mapping"]

RECURSIVE ConvertEach(_)
ConvertEach(tcs) ==
    IF tcs = <<>> THEN <<>>
    ELSE IF convert_tool_call_error(Head(tcs)) = "none"
         THEN <<convert_tool_call(Head(tcs))>> \o ConvertEach(Tail(tcs))
    ELSE ConvertEach(Tail(tcs))

prepare_tools_call(response) ==
    IF response.kind = "message" /\ response.has_tool_calls /\ response.tool_calls # <<>>
    THEN ConvertEach(response.tool_calls)
    ELSE <<>>

\* prepare_tools_call 58-59 reads choices[0]["message"] outside any try
prepare_tools_call_error(response) ==
    IF response.kind = "nomessage" THEN "KeyError" ELSE "none"

----------------------------------------------------------------------------
(* llm/gemini/parser.py *)

\* A Gemini tool call as it arrives in predictions[0].toolCalls.  form: "ok"
\* (id, name and arguments present, arguments valid JSON), "badjson"
\* (arguments not valid JSON), "noname" (no name key), "noid" (no id key),
\* "empty" (an empty mapping).
GeminiForms == {"ok", "badjson", "noname", "noid", "empty"}
GeminiRawCalls == [id : CallIds, name : ToolNames, form : GeminiForms]

\* The Gemini responses.  kind: "none" (not a mapping), "nopredictions" (no
\* predictions key), "emptypredictions" (predictions is an empty list),
\* "prediction".  has_tool_calls: the key toolCalls is present; present with
\* tool_calls = <<>> covers both [] and null.
GeminiResponses ==
    {[kind |-> k, content |-> None, has_tool_calls |-> FALSE, tool_calls |-> <<>>] :
        k \in {"none", "nopredictions", "emptypredictions"}} \cup
    {r \in [kind : {"prediction"}, content : {None}, has_tool_calls : BOOLEAN,
            tool_calls : SeqsUpTo(GeminiRawCalls, MaxCalls)] :
        ~r.has_tool_calls => r.tool_calls = <<>>}

\* need_tools_call 82-83
HasPredictions(response) == response.kind \in {"emptypredictions", "prediction"}

\* need_tools_call 85: predictions[0] of an empty list
gemini_need_tools_call_error(response) ==
    IF response.kind = "emptypredictions" THEN "IndexError" ELSE "none"

\* need_tools_call: the truth value of what it returns
gemini_need_tools_call(response) ==
    IF ~HasPredictions(response) THEN FALSE
    ELSE response.has_tool_calls /\ response.tool_calls # <<>>

\* the empty mapping _convert_tools_format returns when it gives up
EmptyEntry == [id |-> "", name |-> "", arguments |-> ""]

\* _convert_tools_format 139-162
gemini_convert_tools_format(tools_data) ==
    CASE tools_data.form = "empty" -> EmptyEntry
      [] tools_data.form = "noname" -> EmptyEntry
      [] tools_data.form = "badjson" ->
            [id |-> tools_data.id, name |-> tools_data.name, arguments |-> "raw_arguments"]
      [] tools_data.form = "noid" ->
            [id |-> "unknown", name |-> tools_data.name, arguments |-> "mapping"]
      [] OTHER -> [id |-> tools_data.id, name |-> tools_data.name, arguments |-> "mapping"]

\* prepare_tools_call 107: need_tools_call is called outside the try
gemini_prepare_tools_call_error(response) == gemini_need_tools_call_error(response)

\* prepare_tools_call 105-127
gemini_prepare_tools_call(response) ==
    IF gemini_need_tools_call_error(response) # "none" \/ ~gemini_need_tools_call(response)
    THEN <<>>
    ELSE Map(gemini_convert_tools_format, response.tool_calls)

\* the two parsers by provider
need_tools_call_of(provider, response) ==
    IF provider = "openai"
    THEN [called |-> TRUE, raised |-> need_tools_call_error(response),
          value |-> need_tools_call_error(response) = "none" /\ need_tools_call(response)]
    ELSE [called |-> TRUE, raised |-> gemini_need_tools_call_error(response),
          value |-> gemini_need_tools_call_error(response) = "none"
                    /\ gemini_need_tools_call(response)]

prepare_tools_call_of(provider, response) ==
    IF provider = "openai"
    THEN [called |-> TRUE, raised |-> prepare_tools_call_error(response),
          calls |-> prepare_tools_call(response)]
    ELSE [called |-> TRUE, raised |-> gemini_prepare_tools_call_error(response),
          calls |-> gemini_prepare_tools_call(response)]

NeedNotCalled == [called |-> FALSE, raised |-> "none", value |-> FALSE]
PrepareNotCalled == [called |-> FALSE, raised |-> "none", calls |-> <<>>]

ParserIdle ==
    /\ resp_in = [provider |-> "openai", response |-> NoResponse]
    /\ need_out = NeedNotCalled
    /\ prepare_out = PrepareNotCalled

----------------------------------------------------------------------------
(* client/result_parser.py *)

\* A raw tool result.  is_dict: it is a mapping; content_kind: "absent",
\* "notlist" or "list"; sc_kind (structuredContent): "absent", "null",
\* "dict" or "other"; sc_keys: the keys of a structuredContent mapping.  A
\* content item: is_dict, has_type, type, and text (Empty when the item has
\* no text or an empty one).  The raw results carry no _meta and no
\* annotations, so that the metadata parse extracts is the empty mapping.
TextItem(text) == [is_dict |-> TRUE, has_type |-> TRUE, type |-> "text", text |-> text]
ImageItem == [is_dict |-> TRUE, has_type |-> TRUE, type |-> "image", text |-> Empty]
UntypedItem == [is_dict |-> TRUE, has_type |-> FALSE, type |-> "", text |-> Empty]
NotADictItem == [is_dict |-> FALSE, has_type |-> FALSE, type |-> "", text |-> Empty]
RawResult(isError, items) ==
    [is_dict |-> TRUE, has_isError |-> TRUE, isError |-> isError,
     content_kind |-> "list", items |-> items, sc_kind |-> "absent", sc_keys |-> {}]

\* the values the keys of a structuredContent mapping carry
StructuredKeys == {"result", "error_type", "details"}
StructuredValue(key) ==
    CASE key = "result" -> <<"4", "2">>
      [] key = "error_type" -> <<"E">>
      [] OTHER -> <<"d">>

validate_result_structure(tool_result) ==
    /\ tool_result.is_dict
    /\ tool_result.has_isError
    /\ tool_result.content_kind # "notlist"
    /\ tool_result.content_kind = "list" =>
          \A i \in 1..Len(tool_result.items) :
              tool_result.items[i].is_dict /\ tool_result.items[i].has_type
    /\ tool_result.sc_kind # "other"

is_error(tool_result) == tool_result.has_isError /\ tool_result.isError

\* a variant that keeps the text items whose text is empty
IsTextPart_keeping_empty(item) == item.is_dict /\ item.type = "text"

\* extract_text_content 148-151: a text item whose text is not empty
IsTextPart(item) == item.is_dict /\ item.type = "text" /\ item.text # Empty
ItemText(item) == item.text

extract_text_content(tool_result) ==
    JoinSpace(Map(ItemText, SelectSeq(tool_result.items, IsTextPart)))

\* extract_structured_content: the keys of the mapping it returns
extract_structured_content(tool_result) ==
    IF tool_result.sc_kind = "dict" THEN tool_result.sc_keys ELSE {}

\* the fixed texts of the parser, each one token of a text
FailedText == <<"Tool execution failed">>
SuccessText == <<"Tool executed successfully">>
SuccessPrefix == <<"Tool executed successfully: ">>
ResultPrefix == <<"Tool executed successfully with result: ">>
Ellipsis == <<".", ".", ".">>

\* get_result_summary 226-227: the longest text quoted whole, and the
\* number of characters kept of a longer one
SummaryLimit == 100
SummaryKeep == 97

get_result_summary(tool_result) ==
    LET text_content == extract_text_content(tool_result)
        structured_data == extract_structured_content(tool_result)
    IN IF is_error(tool_result) THEN FailedText
       ELSE IF text_content # Empty
            THEN IF Len(text_content) > SummaryLimit
                 THEN SuccessPrefix \o SubSeq(text_content, 1, SummaryKeep) \o Ellipsis
                 ELSE SuccessPrefix \o text_content
       ELSE IF structured_data # {}
            THEN IF "result" \in structured_data
                 THEN ResultPrefix \o StructuredValue("result")
                 ELSE <<"Tool executed successfully with ",
                        ToString(Cardinality(structured_data)), " data fields">>
       ELSE SuccessText

extract_error_info(tool_result) ==
    LET text_content == extract_text_content(tool_result)
        structured_data == extract_structured_content(tool_result)
    IN [message |-> IF text_content # Empty THEN text_content ELSE FailedText,
        error_type |-> IF "error_type" \in structured_data
                       THEN StructuredValue("error_type") ELSE <<"unknown">>,
        details |-> IF "details" \in structured_data
                    THEN StructuredValue("details") ELSE Empty]

\* a variant that reports the error details of every result
error_info_always(tool_result) == <<extract_error_info(tool_result)>>

\* parse 64-67: error_info, <<>> standing for None
error_info_of(tool_result) ==
    IF is_error(tool_result) THEN <<extract_error_info(tool_result)>> ELSE <<>>

\* ToolResultParser.parse: the exception it raises, or "none"
parse_error(tool_result) ==
    IF validate_result_structure(tool_result) THEN "none" ELSE "ValueError"

\* ToolResultParser.parse: the normalized result
parse(tool_call_id, tool_result) ==
    [success |-> ~is_error(tool_result),
     text_content |-> extract_text_content(tool_result),
     structured_data |-> extract_structured_content(tool_result),
     summary |-> get_result_summary(tool_result),
     metadata |-> {},
     error_info |-> error_info_of(tool_result)]

NoResult ==
    [success |-> FALSE, text_content |-> Empty, structured_data |-> {},
     summary |-> Empty, metadata |-> {}, error_info |-> <<>>]
ParseNotCalled == [called |-> FALSE, raised |-> "none", result |-> NoResult]

\* a variant that returns what it can extract from an invalid result
parse_outcome_lenient(tool_call_id, tool_result) ==
    [called |-> TRUE, raised |-> "none",
     result |-> IF tool_result.is_dict /\ tool_result.content_kind # "notlist"
                THEN parse(tool_call_id, tool_result) ELSE NoResult]

\* parse as a whole: what it raises and what it returns
parse_outcome(tool_call_id, tool_result) ==
    IF parse_error(tool_result) # "none"
    THEN [called |-> TRUE, raised |-> parse_error(tool_result), result |-> NoResult]
    ELSE [called |-> TRUE, raised |-> "none", result |-> parse(tool_call_id, tool_result)]

ResultIdle ==
    /\ raw_in = RawResult(FALSE, <<>>)
    /\ parse_out = ParseNotCalled

----------------------------------------------------------------------------
(* llm/exceptions.py, llm/config.py and core/llm_executor.py *)

\* the exception classes and their base classes
Parent(cls) ==
    CASE cls \in {"LLMConfigurationError", "LLMConnectionError", "LLMAuthenticationError",
                  "LLMAPIError", "LLMTimeoutError", "LLMResponseError"} -> "LLMError"
      [] cls \in {"LLMRateLimitError", "LLMModelError", "LLMTokenLimitError"} -> "LLMAPIError"
      [] OTHER -> "Exception"

\* isinstance(e, cls) for an exception e of class e_cls
RECURSIVE IsInstance(_, _)
IsInstance(e_cls, cls) ==
    \/ e_cls = cls
    \/ e_cls # "Exception" /\ IsInstance(Parent(e_cls), cls)

\* what the provider client's chat_completion can raise
ChatErrors ==
    {"LLMAuthenticationError", "LLMRateLimitError", "LLMTimeoutError", "LLMConnectionError",
     "LLMAPIError", "LLMResponseError", "LLMModelError", "LLMTokenLimitError", "KeyError"}

\* The environment as LLMConfig reads it.  provider: MCPBRIDGE_LLM_PROVIDER
\* ("other": a name LLMProvider does not list); api_key_set: the selected
\* provider's key variable is set; base_url_blank: MCPBRIDGE_LLM_BASE_URL is
\* set to white space; numbers_ok: temperature, max_tokens and timeout parse
\* and are in range; tools_enabled: MCPBRIDGE_LLM_TOOLS_ENABLED.
Envs ==
    [provider : {"openai", "gemini", "other"}, api_key_set : BOOLEAN,
     base_url_blank : BOOLEAN, numbers_ok : BOOLEAN, tools_enabled : BOOLEAN]

\* LLMConfig.__init__: the exception it raises, or "none"
config_error(e) ==
    IF e.provider = "other" THEN "ValueError"
    ELSE IF ~e.api_key_set THEN "ValueError"
    ELSE IF ~e.numbers_ok THEN "ValueError"
    ELSE "none"

\* LLMConfig.__init__: the settings it holds afterwards
LLMConfig(e) ==
    [provider |-> e.provider,
     has_base_url |-> e.provider = "openai" /\ ~e.base_url_blank,
     tools_enabled |-> e.tools_enabled]

\* OpenAIClient.__init__ / GeminiClient.__init__: the exception, or "none"
client_error(config) ==
    IF config.provider = "openai" /\ ~config.has_base_url
    THEN "LLMConfigurationError"
    ELSE "none"

NoConfig == [provider |-> "", has_base_url |-> FALSE, tools_enabled |-> FALSE]
NoClient == [id |-> 0, config |-> NoConfig]

\* _initialize_client 84: except LLMConfigurationError
initialize_client_catches(e_cls) == IsInstance(e_cls, "LLMConfigurationError")

\* _initialize_client: the exception of one construction attempt, or "none"
build_error(e) ==
    IF config_error(e) # "none" THEN config_error(e) ELSE client_error(LLMConfig(e))

\* _initialize_client: _client afterwards, the number of constructions
\* attempted, and the exception that leaves it ("none" if none does)
initialize_client(client, e, attempts) ==
    IF client # NoClient
    THEN [client |-> client, builds |-> attempts, raised |-> "none"]
    ELSE IF build_error(e) = "none"
         THEN [client |-> [id |-> attempts + 1, config |-> LLMConfig(e)],
               builds |-> attempts + 1, raised |-> "none"]
    ELSE IF initialize_client_catches(build_error(e))
         THEN [client |-> NoClient, builds |-> attempts + 1, raised |-> "none"]
    ELSE [client |-> NoClient, builds |-> attempts + 1, raised |-> build_error(e)]

\* a variant that lets every error but an API error pass
get_completion_catches_api_only(e_cls) == IsInstance(e_cls, "LLMAPIError")

\* get_completion 151-158: except LLMError, except Exception
get_completion_catches(e_cls) ==
    IsInstance(e_cls, "LLMError") \/ IsInstance(e_cls, "Exception")

\* the tools argument of get_completion: None, [] or a list of definitions
NoTools == [is_none |-> TRUE, list |-> <<>>]
SuppliedTools ==
    {NoTools, [is_none |-> FALSE, list |-> <<>>],
     [is_none |-> FALSE, list |-> <<[name |-> "t1"]>>]}

\* a variant that forwards every non-empty list, whatever the configuration
tools_to_send_if_supplied(config, tools) ==
    IF ~tools.is_none /\ tools.list # <<>> THEN tools ELSE NoTools

\* get_completion 129: tools if config.tools_enabled and tools else None
tools_to_send(config, tools) ==
    IF config.tools_enabled /\ ~tools.is_none /\ tools.list # <<>> THEN tools ELSE NoTools

\* how a get_completion call ends: out is "none" (it returned None),
\* "response" or "raised"; "idle" before the first call
NoCompletion == [out |-> "idle", error |-> "none", response |-> ""]
ChatResponses == {"answer", "tool_calls"}

ExecIdle ==
    /\ env = [provider |-> "openai", api_key_set |-> TRUE, base_url_blank |-> FALSE,
              numbers_ok |-> TRUE, tools_enabled |-> TRUE]
    /\ llm_client = NoClient
    /\ builds = 0
    /\ n_completions = 0
    /\ completion = NoCompletion
    /\ chat_call = <<>>
    /\ chat_calls = 0

----------------------------------------------------------------------------
(* llm/tools/base.py, llm/tools/openai.py, llm/tools/gemini.py and the      *)
(* tools of the request llm/gemini/client.py builds                         *)

\* A standard tool definition: each of its three fields is a value, an empty
\* text or absent; the parameters schema is well formed or has one defect.
Absent == "absent"
ToolDefNames == {"t1", "t2"}
ParameterSchemas == {"ok", "not_dict", "no_type", "no_properties", "not_object",
                     "properties_not_dict", "property_not_dict",
                     "property_no_type", "property_unsupported"}
StandardTool(name, description, parameters) ==
    [name |-> name, description |-> description, parameters |-> parameters]
\* well-formed definitions, and definitions with one defective field
ToolDefinitions ==
    {StandardTool(n, "d", "ok") : n \in ToolDefNames} \cup
    {StandardTool(n, "d", "ok") : n \in {"", Absent}} \cup
    {StandardTool(n, d, "ok") : n \in ToolDefNames, d \in {"", Absent}} \cup
    {StandardTool(n, "d", p) : n \in ToolDefNames, p \in ParameterSchemas \cup {Absent}}

NoValidationError == [raised |-> FALSE, message |-> "", tool |-> StandardTool(Absent, Absent, Absent)]
ToolValidationError(message, tool) == [raised |-> TRUE, message |-> message, tool |-> tool]

\* {"parameters": params}: the dict _validate_parameters attaches to its errors
ParametersOnly(params) == StandardTool(Absent, Absent, params)

\* _validate_parameters(params): the error it raises, if any
validate_parameters(params) ==
    CASE params = "not_dict" ->
           ToolValidationError("Parameters must be a dictionary", ParametersOnly(params))
      [] params = "no_type" ->
           ToolValidationError("Missing required field in parameters schema: type", ParametersOnly(params))
      [] params = "no_properties" ->
           ToolValidationError("Missing required field in parameters schema: properties", ParametersOnly(params))
      [] params = "not_object" ->
           ToolValidationError("Parameters schema type must be 'object'", ParametersOnly(params))
      [] params = "properties_not_dict" ->
           ToolValidationError("Properties must be a dictionary", ParametersOnly(params))
      [] params = "property_no_type" ->
           ToolValidationError("Missing type in property", ParametersOnly(params))
      [] params = "property_unsupported" ->
           ToolValidationError("Unsupported parameter type", ParametersOnly(params))
      [] OTHER -> NoValidationError

\* validate_tool(tool): the error it raises, if any.  A property schema that
\* is not a dict makes the membership test fail with a TypeError, which
\* validate_tool wraps together with the tool.
validate_tool(tool) ==
    CASE tool.name = Absent -> ToolValidationError("Missing required field: name", tool)
      [] tool.description = Absent -> ToolValidationError("Missing required field: description", tool)
      [] tool.parameters = Absent -> ToolValidationError("Missing required field: parameters", tool)
      [] tool.name = "" -> ToolValidationError("Tool name must be a non-empty string", tool)
      [] tool.description = "" -> ToolValidationError("Tool description must be a non-empty string", tool)
      [] tool.parameters = "property_not_dict" ->
           ToolValidationError("Unexpected error during tool validation", tool)
      [] OTHER -> validate_parameters(tool.parameters)

\* the entry convert_tools appends for a valid tool
ConvertedTool(provider, tool) ==
    [format |-> IF provider = "openai" THEN "function" ELSE "function_declaration",
     name |-> tool.name, description |-> tool.description, parameters |-> tool.parameters]

FirstInvalid(tools) ==
    CHOOSE i \in 1..Len(tools) :
        /\ validate_tool(tools[i]).raised
        /\ \A j \in 1..(i - 1) : ~validate_tool(tools[j]).raised

NotConverted == [called |-> FALSE, error |-> NoValidationError, converted |-> <<>>]

\* OpenAIToolConverter.convert_tools and GeminiToolConverter.convert_tools:
\* _handle_conversion_error re-raises the first tool's validation error
convert_tools(provider, tools) ==
    IF \E i \in 1..Len(tools) : validate_tool(tools[i]).raised
    THEN [called |-> TRUE, error |-> validate_tool(tools[FirstInvalid(tools)]),
          converted |-> <<>>]
    ELSE [called |-> TRUE, error |-> NoValidationError,
          converted |-> [i \in 1..Len(tools) |-> ConvertedTool(provider, tools[i])]]

NoRequest == [built |-> FALSE, has_tools |-> FALSE, tools |-> <<>>]

\* GeminiClient._prepare_tools and the "tools" key of chat_completion's
\* request_data: a failed conversion is logged and the request goes out
\* without the key
NoPreparedTools == [none |-> TRUE, tools |-> <<>>]
prepare_tools(tools) ==
    IF tools = <<>> THEN NoPreparedTools
    ELSE IF convert_tools("gemini", tools).error.raised THEN NoPreparedTools
    ELSE [none |-> FALSE, tools |-> convert_tools("gemini", tools).converted]

\* chat_completion: "if gemini_tools: request_data['tools'] = gemini_tools"
gemini_request(tools) ==
    IF prepare_tools(tools).none
    THEN [built |-> TRUE, has_tools |-> FALSE, tools |-> <<>>]
    ELSE [built |-> TRUE, has_tools |-> TRUE, tools |-> prepare_tools(tools).tools]

NoToolsIn == [provider |-> "openai", tools |-> <<>>]

ConverterIdle ==
    /\ tools_in = NoToolsIn
    /\ convert_out = NotConverted
    /\ request_out = NoRequest

----------------------------------------------------------------------------
(* llm/openai/client.py and llm/gemini/client.py: _handle_error_response    *)

\* A non-success response: its status, its "retry-after" header and its body.
\* The body is not JSON, a JSON value that is not an object, an object
\* without "error", or an object whose "error" has a code and a message.
\* The messages stand for three texts: "token" for "This model's maximum
\* context length is 4097 tokens", "quota" for "Quota exceeded", "plain" for
\* "Bad request".
StatusCodes == {400, 401, 403, 404, 429, 500}
RetryAfterHeaders == {Absent, "number", "not_number"}
ErrorCodes == {"none", "context_length_exceeded", "other"}
ErrorMessages == {Absent, "token", "quota", "plain"}
Body(kind, code, message) == [kind |-> kind, code |-> code, message |-> message]
Bodies ==
    {Body(k, "none", Absent) : k \in {"not_json", "json_not_dict", "no_error"}} \cup
    {Body("error", c, m) : c \in ErrorCodes, m \in ErrorMessages}
HttpResponses ==
    [status : StatusCodes, retry_after : RetryAfterHeaders, body : Bodies]

\* f"API request failed with status {status_code}"
DefaultMessage == "API request failed with status"

\* error_info.get("message", error_message)
error_message_of(body) ==
    IF body.kind = "error" /\ body.message # Absent THEN body.message ELSE DefaultMessage

\* word in error_message.lower(): which of the words the clients look for
\* occur in each of the texts
WordsOf(message) ==
    CASE message = "token" -> {"token", "context"}
      [] message = "quota" -> {"quota"}
      [] OTHER -> {}
InMessage(word, message) == word \in WordsOf(message)

\* an exception with the attributes the error classes define; 0 and "none"
\* stand for None
Raised(cls, message, status_code, error_code, retry_after) ==
    [called |-> TRUE, cls |-> cls, message |-> message, status_code |-> status_code,
     error_code |-> error_code, retry_after |-> retry_after]
NotHandled ==
    [called |-> FALSE, cls |-> "none", message |-> "", status_code |-> 0,
     error_code |-> "none", retry_after |-> "none"]

\* float(response.headers["retry-after"]), None when absent or not a number
retry_after_of(response) ==
    IF response.retry_after = "number" THEN "number" ELSE "none"

\* OpenAIClient._handle_error_response.  A JSON body that is not an object
\* fails at error_data["session_id"] = ...; LLMAuthenticationError takes only
\* (message, details), so the 401 branch fails in the constructor call.
openai_handle_error_response(response) ==
    LET status_code == response.status
        error_message == error_message_of(response.body)
        error_code == IF response.body.kind = "error" THEN response.body.code ELSE "none"
    IN  CASE response.body.kind = "json_not_dict" ->
               Raised("TypeError", "", 0, "none", "none")
          [] status_code = 401 ->
               Raised("TypeError", "", 0, "none", "none")
          [] status_code = 429 ->
               Raised("LLMRateLimitError", "Rate limit exceeded", status_code, error_code,
                      retry_after_of(response))
          [] status_code = 404 ->
               Raised("LLMModelError", "Model not found", status_code, error_code, "none")
          [] error_code = "context_length_exceeded" \/ InMessage("token", error_message) ->
               Raised("LLMTokenLimitError", "Token limit exceeded", status_code, error_code,
                      "none")
          [] OTHER ->
               Raised("LLMAPIError", error_message, status_code, error_code, "none")

\* GeminiClient._handle_error_response.  A JSON body that is not an object has
\* no get; no error is given the status, the error code or the header.
gemini_handle_error_response(response) ==
    LET status_code == response.status
        error_message == error_message_of(response.body)
    IN  CASE response.body.kind = "json_not_dict" ->
               Raised("AttributeError", "", 0, "none", "none")
          [] status_code = 401 ->
               Raised("LLMAuthenticationError", "Authentication failed", 0, "none", "none")
          [] status_code = 429 ->
               Raised("LLMRateLimitError", "Rate limit exceeded", 0, "none", "none")
          [] status_code = 404 ->
               Raised("LLMModelError", "Model not found", 0, "none", "none")
          [] InMessage("quota", error_message) \/ InMessage("limit", error_message) ->
               Raised("LLMTokenLimitError", "Resource limits exceeded", 0, "none", "none")
          [] OTHER ->
               Raised("LLMAPIError", error_message, 0, "none", "none")

handle_error_response(provider, response) ==
    IF provider = "openai" THEN openai_handle_error_response(response)
    ELSE gemini_handle_error_response(response)

NoHttpResponse ==
    [provider |-> "openai",
     response |-> [status |-> 400, retry_after |-> Absent, body |-> Body("not_json", "none", Absent)]]

HttpIdle ==
    /\ http_in = NoHttpResponse
    /\ http_out = NotHandled


----------------------------------------------------------------------------
(* core/context.py: ContextParser and ContextManager.run *)

\* An entry of the 'tools' list: the keys it has and their values (the empty
\* text for a key it does not have)
RequiredKeys == {"name", "command", "path"}
ToolEntry(keys, name, command, path) ==
    [keys |-> keys, name |-> name, command |-> command, path |-> path]

\* the command chain below the root: the first- and second-level commands
\* and the 'tools' option of the second
CommandChain(first, second, tools_is_list, tools) ==
    [first |-> first, second |-> second, tools_is_list |-> tools_is_list, tools |-> tools]
NoCommand == CommandChain("mcpserver", "stdio", TRUE, <<>>)

NoParseError == [raised |-> FALSE, cls |-> "none", names |-> {}, entry |-> <<>>]
\* ValueError(f"Invalid tool definition. Each tool must have 'name',
\* 'command', and 'path'. Got: {tool_config}")
InvalidToolDefinition(tool_config) ==
    [raised |-> TRUE, cls |-> "ValueError", names |-> RequiredKeys, entry |-> <<tool_config>>]
\* the other ValueErrors of the parser name no field and no entry
InvalidCommand == [raised |-> TRUE, cls |-> "ValueError", names |-> {}, entry |-> <<>>]

\* all(k in tool_config for k in ['name', 'command', 'path'])
HasRequiredKeys(tool_config) == RequiredKeys \subseteq tool_config.keys

\* the entries the loop of _parse_stdio appends before it returns or raises
RECURSIVE AppendedEntries(_)
AppendedEntries(tools) ==
    IF tools = <<>> THEN <<>>
    ELSE IF ~HasRequiredKeys(Head(tools)) THEN <<>>
    ELSE <<Head(tools)>> \o AppendedEntries(Tail(tools))

\* _parse_stdio: the error it raises, if any, and Context.tools_config after it
parse_stdio(tools_config_before, stdio) ==
    IF ~stdio.tools_is_list
    THEN [error |-> InvalidCommand, tools_config |-> tools_config_before]
    ELSE LET appended == AppendedEntries(stdio.tools)
         IN  [error |-> IF Len(appended) < Len(stdio.tools)
                        THEN InvalidToolDefinition(stdio.tools[Len(appended) + 1])
                        ELSE NoParseError,
              tools_config |-> tools_config_before \o appended]

\* a variant that tests the first level only and takes any second-level
\* command for the transport
context_parse_first_level_only(tools_config_before, root) ==
    IF root.first # "mcpserver"
    THEN [error |-> InvalidCommand, tools_config |-> tools_config_before]
    ELSE parse_stdio(tools_config_before, root)

\* ContextParser.parse: _parse_first_level_command, _parse_mcp_servers, _parse_stdio
context_parse(tools_config_before, root) ==
    IF root.first # "mcpserver" \/ root.second # "stdio"
    THEN [error |-> InvalidCommand, tools_config |-> tools_config_before]
    ELSE parse_stdio(tools_config_before, root)

NotRun == [parsed |-> FALSE, error |-> NoParseError, session_created |-> FALSE,
           session_started |-> FALSE]

\* ContextManager.run: parse, then Session(ctx) and session.start()
context_run(tools_config_before, root) ==
    LET parsed == context_parse(tools_config_before, root)
    IN  [parsed |-> TRUE, error |-> parsed.error,
         session_created |-> ~parsed.error.raised,
         session_started |-> ~parsed.error.raised]

NoExecutor == [constructed |-> FALSE, clients |-> <<>>]

ContextIdle ==
    /\ root_cmd = NoCommand
    /\ ctx_tools_config = <<>>
    /\ run_out = NotRun
    /\ executor_clients = NoExecutor

AdapterIdle == ConverterIdle /\ HttpIdle /\ ContextIdle

UnitIdle == ExecIdle /\ ParserIdle /\ ResultIdle /\ AdapterIdle

----------------------------------------------------------------------------
(* core/session.py: Session.start *)

\* what the prompt collaborator can produce for the system text
SystemTexts == {Empty, <<"s">>}
UserText == <<"u">>

\* the catalogs the tool server can return to get_tools
ToolDef(name) == [name |-> name]
Catalogs == {<<>>, <<ToolDef("t1")>>, <<ToolDef("t1"), ToolDef("t2")>>}

\* the raw results the tool server can return to call_tool
SessionRawResults ==
    {RawResult(FALSE, <<TextItem(<<"o", "k">>)>>),
     RawResult(FALSE, <<TextItem(<<"a">>), ImageItem, TextItem(<<"b">>)>>),
     RawResult(TRUE, <<TextItem(<<"n", "o">>)>>),
     RawResult(FALSE, <<UntypedItem>>),
     [RawResult(FALSE, <<>>) EXCEPT !.has_isError = FALSE]}

\* _handle_llm_interaction 150-173: a call that returns a response has built
\* an OpenAIClient; a call that returns None has built one unless LLMConfig
\* or the client's constructor raised.  The finally closes every client built.
NoLLMClients == [opened |-> 0, closed |-> 0]
ClientBuilt(response) == IF response = NoResponse THEN BOOLEAN ELSE {TRUE}
closing_in_finally(c, built) ==
    IF built THEN [opened |-> c.opened + 1, closed |-> c.closed + 1] ELSE c

CompletionRecord(msgs, tools, response) ==
    [messages |-> get_messages(msgs), tools |-> tools, response |-> response]

SessionInit ==
    /\ pc = "start"
    /\ conv = <<>>
    /\ tools_info = <<>>
    /\ llm_response = NoResponse
    /\ completions = <<>>
    /\ tool_log = <<>>
    /\ discoveries = 0
    /\ client_has_close \in BOOLEAN
    /\ llm_clients = NoLLMClients
    /\ client_closed = FALSE
    /\ error = "none"

\* an error of ToolExecutor.call_tool: its kind and the names its message quotes
NoRouteError == [kind |-> "none", quotes |-> {}]

\* the tool calls given to call_tool besides their name: the id and the
\* arguments mapping, as prepare_tools_call parsed it
RequestCalls == {[id |-> "c1", arguments |-> "{}"], [id |-> "c2", arguments |-> "{q: 1}"]}
NoToolCall == [id |-> "", arguments |-> ""]

RouteIdle ==
    /\ tools_config = <<>>
    /\ server_tools = <<>>
    /\ clients = <<>>
    /\ all_tools_def = <<>>
    /\ request = Empty
    /\ call_request = NoToolCall
    /\ invocation = <<>>
    /\ definitions_got = 0
    /\ n_requests = 0
    /\ routed = <<>>
    /\ route_error = NoRouteError
    /\ route_result = <<>>
    /\ client_calls = 0
    /\ get_tools_calls = <<>>

Init == SessionInit /\ RouteIdle /\ UnitIdle

\* a variant that records the error and goes on to the follow-up completion
Raise_and_continue(e) == pc' = "send_followup" /\ error' = e

Raise(e) == pc' = "raised" /\ error' = e

\* what call_tool raises to the Session: the routing error of call_tool 95-101
\* (no separator in the name, or no client for the server), or a failure of
\* the tool server
RoutingError == "ValueError: tool server not found"
CallToolErrors == {"ToolServerError", RoutingError}

\* session.py 84-111: create the client, get_tools (closing the client in
\* the finally), build the prompt and seed the Conversation.  get_tools or
\* the prompt builder may fail, and start re-raises.
Discover ==
    /\ pc = "start"
    /\ discoveries' = discoveries + 1
    /\ client_closed' = client_has_close
    /\ \/ /\ \E e \in {"ConnectionError", "FileNotFoundError"} : Raise(e)
          /\ UNCHANGED <<conv, tools_info>>
       \/ \E catalog \in Catalogs, system_prompt \in SystemTexts :
             /\ tools_info' = catalog
             /\ conv' = add_user_message(NewConversation(system_prompt), UserText)
             /\ pc' = "send_initial"
             /\ UNCHANGED error
    /\ UNCHANGED <<llm_response, completions, tool_log, client_has_close, llm_clients>>
    /\ UNCHANGED routeVars
    /\ UNCHANGED unitVars

\* session.py 113-117: the first completion and conv.add_assistant_message
SendInitial ==
    /\ pc = "send_initial"
    /\ \E response \in Responses :
          /\ llm_response' = response
          /\ completions' = Append(completions, CompletionRecord(conv, tools_info, response))
          /\ \E built \in ClientBuilt(response) :
                llm_clients' = closing_in_finally(llm_clients, built)
          /\ conv' = add_assistant_message(conv, response)
          /\ IF add_assistant_message_error(response) # "none"
             THEN Raise(add_assistant_message_error(response))
             ELSE pc' = "loop" /\ UNCHANGED error
    /\ UNCHANGED <<tools_info, tool_log, discoveries, client_has_close, client_closed>>
    /\ UNCHANGED routeVars
    /\ UNCHANGED unitVars

\* session.py 121: the loop test fails and start returns
LoopExit ==
    /\ pc = "loop"
    /\ ~need_tools_call(llm_response)
    /\ pc' = "done"
    /\ UNCHANGED <<conv, tools_info, llm_response, completions, tool_log, discoveries,
                   client_has_close, llm_clients, client_closed, error>>
    /\ UNCHANGED routeVars
    /\ UNCHANGED unitVars

\* the one tool call the loop body executes: tool_call[0]
SelectedCall(tool_call) == tool_call[1]

\* session.py 121-129: the loop test holds; prepare the calls, call the
\* tool of tool_call[0], parse its result and append the tool message.
ExecuteTool ==
    /\ pc = "loop"
    /\ need_tools_call(llm_response)
    /\ LET tool_call == prepare_tools_call(llm_response)
       IN IF tool_call = <<>>
          THEN /\ Raise("IndexError")
               /\ UNCHANGED <<conv, tool_log>>
          ELSE LET tc == SelectedCall(tool_call)
               IN \/ /\ tool_log' = Append(tool_log, [id |-> tc.id, name |-> tc.name,
                                                      arguments |-> tc.arguments,
                                                      on_closed_client |-> client_closed])
                     /\ \E e \in CallToolErrors : Raise(e)
                     /\ UNCHANGED conv
                  \/ \E tool_result \in SessionRawResults :
                        /\ tool_log' = Append(tool_log, [id |-> tc.id, name |-> tc.name,
                                                         arguments |-> tc.arguments,
                                                         on_closed_client |-> client_closed])
                        /\ IF parse_error(tool_result) # "none"
                           THEN /\ Raise(parse_error(tool_result))
                                /\ UNCHANGED conv
                           ELSE /\ conv' = add_tool_result(conv, tc.id, tc.name,
                                               parse(tc.id, tool_result).text_content)
                                /\ pc' = "send_followup"
                                /\ UNCHANGED error
    /\ UNCHANGED <<tools_info, llm_response, completions, discoveries,
                   client_has_close, llm_clients, client_closed>>
    /\ UNCHANGED routeVars
    /\ UNCHANGED unitVars

\* a variant whose follow-up completion is sent without the tool list
SendFollowup_without_tools ==
    /\ pc = "send_followup"
    /\ \E response \in Responses :
          /\ llm_response' = response
          /\ completions' = Append(completions, CompletionRecord(conv, <<>>, response))
          /\ \E built \in ClientBuilt(response) :
                llm_clients' = closing_in_finally(llm_clients, built)
    /\ pc' = "done"
    /\ UNCHANGED <<conv, tools_info, tool_log, discoveries, client_has_close,
                   client_closed, error>>
    /\ UNCHANGED routeVars
    /\ UNCHANGED unitVars

\* a variant without the break: the loop test is made again on the follow-up
\* response
SendFollowup_without_break ==
    /\ pc = "send_followup"
    /\ \E response \in Responses :
          /\ llm_response' = response
          /\ completions' = Append(completions, CompletionRecord(conv, tools_info, response))
          /\ \E built \in ClientBuilt(response) :
                llm_clients' = closing_in_finally(llm_clients, built)
    /\ pc' = IF Len(completions) + 1 < MaxCompletions THEN "loop" ELSE "done"
    /\ UNCHANGED <<conv, tools_info, tool_log, discoveries, client_has_close,
                   client_closed, error>>
    /\ UNCHANGED routeVars
    /\ UNCHANGED unitVars

\* session.py 130-131: the follow-up completion, then break
SendFollowup ==
    /\ pc = "send_followup"
    /\ \E response \in Responses :
          /\ llm_response' = response
          /\ completions' = Append(completions, CompletionRecord(conv, tools_info, response))
          /\ \E built \in ClientBuilt(response) :
                llm_clients' = closing_in_finally(llm_clients, built)
    /\ pc' = "done"
    /\ UNCHANGED <<conv, tools_info, tool_log, discoveries, client_has_close,
                   client_closed, error>>
    /\ UNCHANGED routeVars
    /\ UNCHANGED unitVars

Next == Discover \/ SendInitial \/ LoopExit \/ ExecuteTool \/ SendFollowup

Spec == Init /\ [][Next]_vars

----------------------------------------------------------------------------
(* core/conversation.py driven on its own: the three add_* operations in  *)
(* any order, on any input.                                                *)

ConvResponses ==
    {NoResponse, NoChoices, NoMessage,
     [kind |-> "message", content |-> <<"h", "i">>, has_tool_calls |-> FALSE,
      tool_calls |-> <<>>],
     [kind |-> "message", content |-> None, has_tool_calls |-> TRUE, tool_calls |-> <<>>],
     [kind |-> "message", content |-> None, has_tool_calls |-> TRUE,
      tool_calls |-> <<[id |-> "c1", name |-> "t1", form |-> "ok"]>>],
     [kind |-> "message", content |-> None, has_tool_calls |-> TRUE,
      tool_calls |-> <<[id |-> "c1", name |-> "t1", form |-> "nokey"]>>]}

SessionIdle ==
    /\ pc = "idle"
    /\ tools_info = <<>>
    /\ llm_response = NoResponse
    /\ completions = <<>>
    /\ tool_log = <<>>
    /\ discoveries = 0
    /\ client_has_close = FALSE
    /\ llm_clients = NoLLMClients
    /\ client_closed = FALSE
    /\ error = "none"

ConvInit ==
    /\ SessionIdle
    /\ RouteIdle
    /\ UnitIdle
    /\ \E system_prompt \in SystemTexts : conv = NewConversation(system_prompt)

ConvAddUser ==
    /\ Len(conv) < MaxMsgs
    /\ \E content \in {UserText, Empty} : conv' = add_user_message(conv, content)
    /\ error' = "none"
    /\ UNCHANGED <<pc, tools_info, llm_response, completions, tool_log, discoveries,
                   client_has_close, llm_clients, client_closed>>
    /\ UNCHANGED routeVars
    /\ UNCHANGED unitVars

ConvAddAssistant ==
    /\ Len(conv) < MaxMsgs
    /\ \E response \in ConvResponses :
          /\ conv' = add_assistant_message(conv, response)
          /\ error' = add_assistant_message_error(response)
    /\ UNCHANGED <<pc, tools_info, llm_response, completions, tool_log, discoveries,
                   client_has_close, llm_clients, client_closed>>
    /\ UNCHANGED routeVars
    /\ UNCHANGED unitVars

ConvAddToolResult ==
    /\ Len(conv) < MaxMsgs
    /\ \E id \in CallIds, name \in ToolNames, content \in {Empty, <<"o", "k">>} :
          conv' = add_tool_result(conv, id, name, content)
    /\ error' = "none"
    /\ UNCHANGED <<pc, tools_info, llm_response, completions, tool_log, discoveries,
                   client_has_close, llm_clients, client_closed>>
    /\ UNCHANGED routeVars
    /\ UNCHANGED unitVars

ConvNext == ConvAddUser \/ ConvAddAssistant \/ ConvAddToolResult

ConvSpec == ConvInit /\ [][ConvNext]_vars

----------------------------------------------------------------------------
(* core/tool_executor.py *)

ServerNames == {<<"a">>, <<"b">>, <<"a", "-", "b">>}
FuncNames == {<<"f">>, <<"b", "-", "f">>}

Range(s) == {s[i] : i \in 1..Len(s)}
NoRepeats(s) == \A i, j \in 1..Len(s) : s[i] = s[j] => i = j

\* the server lists the parser can leave in Context.tools_config
Configs == SeqsUpTo(ServerNames, MaxServers)
\* the catalogs one tool server can expose
FuncCatalogs == {c \in SeqsUpTo(FuncNames, MaxTools) : NoRepeats(c)}

\* ToolExecutor.__init__: one dict entry per name, in first-insertion order
RECURSIVE InitClients(_, _)
InitClients(config, acc) ==
    IF config = <<>> THEN acc
    ELSE InitClients(Tail(config),
                     IF Head(config) \in Range(acc) THEN acc ELSE Append(acc, Head(config)))

\* the variant the docstring at 56 describes: 'duckduckgo.search'
NamespacedName_dotted(server_name, original_function_name) ==
    server_name \o <<".">> \o original_function_name

\* f"{server_name}-{original_function_name}"
NamespacedName(server_name, original_function_name) ==
    server_name \o <<"-">> \o original_function_name

ServerCatalog(server_name, tool_defs) ==
    [j \in 1..Len(tool_defs) |-> ToolDef(NamespacedName(server_name, tool_defs[j]))]

\* get_tools_definition 63-64: one client.get_tools() per item of _clients
asked_clients(cls) == [i \in 1..Len(cls) |-> cls[i]]

get_tools_definition(cls, catalogs) ==
    Flatten([i \in 1..Len(cls) |-> ServerCatalog(cls[i], catalogs[cls[i]])])

\* the names get_tools_definition 66-68 assigns to one server's tool dicts
renamed(server_name, tool_defs) ==
    [j \in 1..Len(tool_defs) |-> NamespacedName(server_name, tool_defs[j])]

\* a variant whose client hands out its own dicts, so that the renaming
\* reaches the catalog the next get_tools returns
catalog_after_renaming_shared(catalog, new_names) == new_names

\* StdioClient.get_tools 89-101 builds a new list of new dicts on every call
\* (one model_dump per tool), so the renaming of the returned dicts leaves
\* what the next call returns as it was
catalog_after_renaming(catalog, new_names) == catalog

HasSeparator(full_tool_name) == \E i \in 1..Len(full_tool_name) : full_tool_name[i] = "-"

\* full_tool_name.split('-', 1)
split_first(full_tool_name) ==
    LET i == CHOOSE k \in 1..Len(full_tool_name) :
                 /\ full_tool_name[k] = "-"
                 /\ \A j \in 1..(k - 1) : full_tool_name[j] # "-"
    IN [tool_name |-> SubSeq(full_tool_name, 1, i - 1),
        function_name |-> SubSeq(full_tool_name, i + 1, Len(full_tool_name))]

\* call_tool 94-101: the error raised before any client is invoked
routing_error(full_tool_name, cls) ==
    IF ~HasSeparator(full_tool_name)
    THEN [kind |-> "format", quotes |-> {full_tool_name}]
    ELSE IF split_first(full_tool_name).tool_name \notin Range(cls)
         THEN [kind |-> "not_found", quotes |-> {split_first(full_tool_name).tool_name}]
    ELSE NoRouteError

\* names the LLM can ask for besides the catalog's
ProbeNames == {<<"g", "-", "s", "-", "f">>, <<"x">>, <<"b", "-", "f">>}
RequestNames ==
    {NamespacedName(sv, fn) : sv \in ServerNames, fn \in FuncNames} \cup ProbeNames

RouteRawResults ==
    {RawResult(FALSE, <<TextItem(<<"o", "k">>)>>),
     [RawResult(FALSE, <<>>) EXCEPT !.has_isError = FALSE]}

\* call_tool 90-105 for one tool_call {name, arguments, id}
call_tool(full_tool_name, tool_args, tool_id) ==
    /\ request' = full_tool_name
    /\ call_request' = [id |-> tool_id, arguments |-> tool_args]
    /\ n_requests' = n_requests + 1
    /\ IF routing_error(full_tool_name, clients) # NoRouteError
       THEN /\ route_error' = routing_error(full_tool_name, clients)
            /\ routed' = <<>>
            /\ invocation' = <<>>
            /\ route_result' = <<>>
            /\ UNCHANGED client_calls
       ELSE /\ routed' = <<[server |-> split_first(full_tool_name).tool_name,
                            function |-> split_first(full_tool_name).function_name]>>
            /\ client_calls' = client_calls + 1
            /\ \E raw_result \in RouteRawResults :
                  /\ invocation' = <<[function_name |->
                                         split_first(full_tool_name).function_name,
                                      tool_args |-> tool_args,
                                      raw_result |-> raw_result,
                                      parse_id |-> tool_id]>>
                  /\ IF parse_error(raw_result) # "none"
                     THEN /\ route_error' = [kind |-> "parse", quotes |-> {}]
                          /\ route_result' = <<>>
                     ELSE /\ route_error' = NoRouteError
                          /\ route_result' = <<parse(tool_id, raw_result)>>

RouteInit ==
    /\ SessionIdle
    /\ UnitIdle
    /\ conv = <<>>
    /\ tools_config \in Configs
    /\ clients = InitClients(tools_config, <<>>)
    /\ server_tools \in [Range(tools_config) -> FuncCatalogs]
    /\ all_tools_def = <<>>
    /\ request = Empty
    /\ call_request = NoToolCall
    /\ invocation = <<>>
    /\ definitions_got = 0
    /\ n_requests = 0
    /\ routed = <<>>
    /\ route_error = NoRouteError
    /\ route_result = <<>>
    /\ client_calls = 0
    /\ get_tools_calls = <<>>

\* get_tools_definition 62-72, with each client's get_tools: the names the
\* loop assigns are written into the dicts get_tools returned
GetToolsDefinition ==
    /\ definitions_got < MaxDiscoveries
    /\ definitions_got' = definitions_got + 1
    /\ all_tools_def' = get_tools_definition(clients, server_tools)
    /\ get_tools_calls' = asked_clients(clients)
    /\ server_tools' = [sv \in DOMAIN server_tools |->
                           catalog_after_renaming(server_tools[sv],
                                                  renamed(sv, server_tools[sv]))]
    /\ UNCHANGED <<tools_config, clients, request, call_request, invocation, n_requests,
                   routed, route_error, route_result, client_calls>>
    /\ UNCHANGED sessionVars
    /\ UNCHANGED conv
    /\ UNCHANGED unitVars

\* a variant that keeps the last result and answers a repeated request from it
CallTool_cached ==
    /\ n_requests < MaxRequests
    /\ \E full_tool_name \in RequestNames, tc \in RequestCalls :
          IF /\ route_result # <<>>
             /\ request = full_tool_name
             /\ call_request = tc
          THEN /\ n_requests' = n_requests + 1
               /\ UNCHANGED <<request, call_request, invocation, routed, route_error,
                              route_result, client_calls>>
          ELSE call_tool(full_tool_name, tc.arguments, tc.id)
    /\ UNCHANGED <<tools_config, server_tools, clients, all_tools_def, definitions_got,
                   get_tools_calls>>
    /\ UNCHANGED sessionVars
    /\ UNCHANGED conv
    /\ UNCHANGED unitVars

CallTool ==
    /\ n_requests < MaxRequests
    /\ \E full_tool_name \in RequestNames, tc \in RequestCalls :
          call_tool(full_tool_name, tc.arguments, tc.id)
    /\ UNCHANGED <<tools_config, server_tools, clients, all_tools_def, definitions_got,
                   get_tools_calls>>
    /\ UNCHANGED sessionVars
    /\ UNCHANGED conv
    /\ UNCHANGED unitVars

RouteNext == GetToolsDefinition \/ CallTool

RouteSpec == RouteInit /\ [][RouteNext]_vars

----------------------------------------------------------------------------
(* core/llm_executor.py driven on its own: get_completion calls on one     *)
(* LLMExecutor, the environment changing between them.                     *)

ExecInit ==
    /\ SessionIdle
    /\ RouteIdle
    /\ ParserIdle
    /\ ResultIdle
    /\ AdapterIdle
    /\ conv = <<>>
    /\ env \in Envs
    /\ llm_client = NoClient
    /\ builds = 0
    /\ n_completions = 0
    /\ completion = NoCompletion
    /\ chat_call = <<>>
    /\ chat_calls = 0

\* the environment is changed from outside
SetEnv ==
    /\ \E e \in Envs : e # env /\ env' = e
    /\ UNCHANGED <<llm_client, builds, n_completions, completion, chat_call, chat_calls>>
    /\ UNCHANGED <<sessionVars, routeVars, conv, parserVars, resultVars, adapterVars>>

\* get_completion 117-158 for one tools argument, with _initialize_client
GetCompletion ==
    /\ n_completions < MaxCompletions
    /\ n_completions' = n_completions + 1
    /\ \E tools \in SuppliedTools :
          LET init == initialize_client(llm_client, env, builds)
          IN /\ llm_client' = init.client
             /\ builds' = init.builds
             /\ IF init.raised # "none"
                THEN /\ completion' = [out |-> "raised", error |-> init.raised,
                                       response |-> ""]
                     /\ UNCHANGED <<chat_call, chat_calls>>
                ELSE IF init.client = NoClient
                THEN /\ completion' = [NoCompletion EXCEPT !.out = "none"]
                     /\ chat_call' = <<>>
                     /\ UNCHANGED chat_calls
                ELSE IF config_error(env) # "none"
                THEN /\ completion' =
                           IF get_completion_catches(config_error(env))
                           THEN [NoCompletion EXCEPT !.out = "none"]
                           ELSE [out |-> "raised", error |-> config_error(env),
                                 response |-> ""]
                     /\ chat_call' = <<>>
                     /\ UNCHANGED chat_calls
                ELSE /\ chat_calls' = chat_calls + 1
                     /\ \/ \E response \in ChatResponses :
                              /\ chat_call' = <<[client |-> init.client,
                                                 tools |-> tools_to_send(LLMConfig(env), tools),
                                                 supplied |-> tools,
                                                 config |-> LLMConfig(env),
                                                 raised |-> "none"]>>
                              /\ completion' = [out |-> "response", error |-> "none",
                                                response |-> response]
                        \/ \E e_cls \in ChatErrors :
                              /\ chat_call' = <<[client |-> init.client,
                                                 tools |-> tools_to_send(LLMConfig(env), tools),
                                                 supplied |-> tools,
                                                 config |-> LLMConfig(env),
                                                 raised |-> e_cls]>>
                              /\ completion' =
                                    IF get_completion_catches(e_cls)
                                    THEN [NoCompletion EXCEPT !.out = "none"]
                                    ELSE [out |-> "raised", error |-> e_cls,
                                          response |-> ""]
    /\ UNCHANGED env
    /\ UNCHANGED <<sessionVars, routeVars, conv, parserVars, resultVars, adapterVars>>

ExecNext == SetEnv \/ GetCompletion

ExecSpec == ExecInit /\ [][ExecNext]_vars

----------------------------------------------------------------------------
(* The response parsers driven on their own: need_tools_call and           *)
(* prepare_tools_call of either provider's parser on one response.         *)

ParserInputs ==
    {[provider |-> "openai", response |-> r] : r \in Responses} \cup
    {[provider |-> "gemini", response |-> r] : r \in GeminiResponses}

ParserInit ==
    /\ SessionIdle
    /\ RouteIdle
    /\ ExecIdle
    /\ ResultIdle
    /\ AdapterIdle
    /\ conv = <<>>
    /\ resp_in \in ParserInputs
    /\ need_out = NeedNotCalled
    /\ prepare_out = PrepareNotCalled

NeedToolsCall ==
    /\ ~need_out.called
    /\ need_out' = need_tools_call_of(resp_in.provider, resp_in.response)
    /\ UNCHANGED <<resp_in, prepare_out>>
    /\ UNCHANGED <<sessionVars, routeVars, conv, execVars, resultVars, adapterVars>>

PrepareToolsCall ==
    /\ ~prepare_out.called
    /\ prepare_out' = prepare_tools_call_of(resp_in.provider, resp_in.response)
    /\ UNCHANGED <<resp_in, need_out>>
    /\ UNCHANGED <<sessionVars, routeVars, conv, execVars, resultVars, adapterVars>>

ParserNext == NeedToolsCall \/ PrepareToolsCall

ParserSpec == ParserInit /\ [][ParserNext]_vars

----------------------------------------------------------------------------
(* client/result_parser.py driven on its own: parse on one raw result.     *)

\* a text of n characters
LongText(n) == [i \in 1..n |-> ToString(i % 10)]

ContentItems ==
    {TextItem(<<"o", "k">>), TextItem(Empty), TextItem(LongText(50)),
     TextItem(LongText(49)), ImageItem, UntypedItem, NotADictItem}

NotADict ==
    [is_dict |-> FALSE, has_isError |-> FALSE, isError |-> FALSE,
     content_kind |-> "absent", items |-> <<>>, sc_kind |-> "absent", sc_keys |-> {}]

RawInputs ==
    {NotADict} \cup
    {r \in [is_dict : {TRUE}, has_isError : BOOLEAN, isError : BOOLEAN,
            content_kind : {"absent", "notlist", "list"},
            items : SeqsUpTo(ContentItems, MaxItems),
            sc_kind : {"absent", "null", "dict", "other"},
            sc_keys : SUBSET StructuredKeys] :
        /\ ~r.has_isError => ~r.isError
        /\ r.content_kind # "list" => r.items = <<>>
        /\ r.sc_kind # "dict" => r.sc_keys = {}}

ResultInit ==
    /\ SessionIdle
    /\ RouteIdle
    /\ ExecIdle
    /\ ParserIdle
    /\ AdapterIdle
    /\ conv = <<>>
    /\ raw_in \in RawInputs
    /\ parse_out = ParseNotCalled

ParseResult ==
    /\ ~parse_out.called
    /\ \E tool_call_id \in CallIds : parse_out' = parse_outcome(tool_call_id, raw_in)
    /\ UNCHANGED raw_in
    /\ UNCHANGED <<sessionVars, routeVars, conv, execVars, parserVars, adapterVars>>

ResultNext == ParseResult

ResultSpec == ResultInit /\ [][ResultNext]_vars

----------------------------------------------------------------------------
(* The tool converters driven on their own: convert_tools of either         *)
(* provider's converter on one list of standard tool definitions, and the   *)
(* request GeminiClient.chat_completion builds from the same list.          *)

ConverterInputs ==
    {[provider |-> p, tools |-> ts] :
        p \in {"openai", "gemini"}, ts \in SeqsUpTo(ToolDefinitions, MaxTools)}

ConverterInit ==
    /\ SessionIdle
    /\ RouteIdle
    /\ ExecIdle
    /\ ParserIdle
    /\ ResultIdle
    /\ HttpIdle
    /\ ContextIdle
    /\ conv = <<>>
    /\ tools_in \in ConverterInputs
    /\ convert_out = NotConverted
    /\ request_out = NoRequest

ConvertTools ==
    /\ ~convert_out.called
    /\ convert_out' = convert_tools(tools_in.provider, tools_in.tools)
    /\ UNCHANGED <<tools_in, request_out>>
    /\ UNCHANGED <<sessionVars, routeVars, conv, execVars, parserVars, resultVars,
                   httpVars, contextVars>>

BuildRequest ==
    /\ tools_in.provider = "gemini"
    /\ ~request_out.built
    /\ request_out' = gemini_request(tools_in.tools)
    /\ UNCHANGED <<tools_in, convert_out>>
    /\ UNCHANGED <<sessionVars, routeVars, conv, execVars, parserVars, resultVars,
                   httpVars, contextVars>>

ConverterNext == ConvertTools \/ BuildRequest

ConverterSpec == ConverterInit /\ [][ConverterNext]_vars

----------------------------------------------------------------------------
(* The provider clients' error mapping driven on its own: one non-success   *)
(* response handed to _handle_error_response of either client.              *)

HttpInputs == [provider : {"openai", "gemini"}, response : HttpResponses]

HttpInit ==
    /\ SessionIdle
    /\ RouteIdle
    /\ ExecIdle
    /\ ParserIdle
    /\ ResultIdle
    /\ ConverterIdle
    /\ ContextIdle
    /\ conv = <<>>
    /\ http_in \in HttpInputs
    /\ http_out = NotHandled

HandleErrorResponse ==
    /\ ~http_out.called
    /\ http_out' = handle_error_response(http_in.provider, http_in.response)
    /\ UNCHANGED http_in
    /\ UNCHANGED <<sessionVars, routeVars, conv, execVars, parserVars, resultVars,
                   converterVars, contextVars>>

HttpNext == HandleErrorResponse

HttpSpec == HttpInit /\ [][HttpNext]_vars

----------------------------------------------------------------------------
(* core/context.py driven on its own: ContextManager.run on one command     *)
(* chain, and the ToolExecutor built from the context it leaves.            *)

CommandText == <<"c">>
PathText == <<"p">>
\* well-formed entries, and entries with one key absent or one value empty
ToolEntries ==
    {ToolEntry(RequiredKeys, n, CommandText, PathText) : n \in ServerNames \cup {Empty}} \cup
    {ToolEntry(RequiredKeys \ {"name"}, Empty, CommandText, PathText)} \cup
    {ToolEntry(RequiredKeys, n, Empty, PathText) : n \in ServerNames} \cup
    {ToolEntry(RequiredKeys \ {"command"}, n, Empty, PathText) : n \in ServerNames} \cup
    {ToolEntry(RequiredKeys, n, CommandText, Empty) : n \in ServerNames} \cup
    {ToolEntry(RequiredKeys \ {"path"}, n, CommandText, Empty) : n \in ServerNames}

\* the chains whose markers are wrong or whose 'tools' option is not a list
\* carry no entries; "absent": the chain has no command at that level
CommandChains ==
    {CommandChain("mcpserver", "stdio", TRUE, ts) : ts \in SeqsUpTo(ToolEntries, MaxServers)} \cup
    {CommandChain(f, sd, l, <<>>) : f \in {"mcpserver", "other"},
                                   sd \in {"stdio", "other", "absent"}, l \in BOOLEAN} \cup
    {CommandChain("absent", "absent", FALSE, <<>>)}

ContextInit ==
    /\ SessionIdle
    /\ RouteIdle
    /\ ExecIdle
    /\ ParserIdle
    /\ ResultIdle
    /\ ConverterIdle
    /\ HttpIdle
    /\ conv = <<>>
    /\ root_cmd \in CommandChains
    /\ ctx_tools_config = <<>>
    /\ run_out = NotRun
    /\ executor_clients = NoExecutor

Run ==
    /\ ~run_out.parsed
    /\ run_out' = context_run(ctx_tools_config, root_cmd)
    /\ ctx_tools_config' = context_parse(ctx_tools_config, root_cmd).tools_config
    /\ UNCHANGED <<root_cmd, executor_clients>>
    /\ UNCHANGED <<sessionVars, routeVars, conv, execVars, parserVars, resultVars,
                   converterVars, httpVars>>

\* ToolExecutor(ctx) on the context a successful parse left
ConstructToolExecutor ==
    /\ run_out.parsed
    /\ ~run_out.error.raised
    /\ ~executor_clients.constructed
    /\ executor_clients' =
          [constructed |-> TRUE,
           clients |-> InitClients([i \in 1..Len(ctx_tools_config) |-> ctx_tools_config[i].name],
                                   <<>>)]
    /\ UNCHANGED <<root_cmd, ctx_tools_config, run_out>>
    /\ UNCHANGED <<sessionVars, routeVars, conv, execVars, parserVars, resultVars,
                   converterVars, httpVars>>

ContextNext == Run \/ ConstructToolExecutor

ContextSpec == ContextInit /\ [][ContextNext]_vars

----------------------------------------------------------------------------
(* Properties of the Session loop (checked under Spec) *)

Last(s) == s[Len(s)]
IsAssistant(m) == m.role = "assistant"
IsTool(m) == m.role = "tool"
IsLoopMessage(m) == m.role \in {"assistant", "tool"}
RoleOf(m) == m.role
ToolCallIdOf(m) == m.tool_call_id
IdOf(tc) == tc.id

\* the response carries at least one tool call
RequestsTool(response) ==
    response.kind = "message" /\ response.has_tool_calls /\ response.tool_calls # <<>>
\* every tool call of the response is well formed
WellFormedCalls(response) ==
    \A i \in 1..Len(response.tool_calls) : response.tool_calls[i].form = "ok"
\* a response that reads as a message and carries no tool call
CarriesNoToolCalls(response) ==
    response.kind = "message" /\ response.tool_calls = <<>>
\* a response that reads as a message and has no tool_calls key at all
PlainAnswer(response) == response.kind = "message" /\ ~response.has_tool_calls
Returned(response) == response.kind # "none"
ReturnedRecord(c) == Returned(c.response)

\* C1: loop progress.  When the first response requests exactly one
\* well-formed tool call and the second requests none, the finished session
\* has made exactly two completions and one tool execution, and after the
\* seed messages its Conversation reads assistant, tool, assistant.
C1_LoopProgress ==
    ( /\ pc = "done"
      /\ Len(completions) >= 1
      /\ RequestsTool(completions[1].response)
      /\ Len(completions[1].response.tool_calls) = 1
      /\ WellFormedCalls(completions[1].response)
      /\ Len(completions) >= 2 => PlainAnswer(completions[2].response) )
    => /\ Len(completions) = 2
       /\ Len(tool_log) = 1
       /\ Map(RoleOf, SelectSeq(conv, IsLoopMessage)) = <<"assistant", "tool", "assistant">>

\* C2: the session loops for as long as the latest response needs a tool
\* call.  A session that has returned did so on a response that requests no
\* tool call, every earlier response having been answered by one round of
\* tool execution (k rounds for k + 1 completions).
C2_LoopsWhileToolsNeeded ==
    ( /\ pc = "done"
      /\ completions # <<>>
      /\ \A i \in 1..Len(completions) :
            /\ completions[i].response.kind = "message"
            /\ WellFormedCalls(completions[i].response) )
    => /\ ~RequestsTool(Last(completions).response)
       /\ Len(tool_log) = Len(completions) - 1

\* C3: within one turn every well-formed tool call is executed.  When the
\* response being answered carries n >= 2 well-formed calls, then before the
\* next completion is requested n calls have been made and n tool messages
\* appended, both in the order prepare_tools_call returned them.
C3_AllCallsOfATurnExecuted ==
    ( /\ pc = "send_followup"
      /\ Len(llm_response.tool_calls) >= 2
      /\ WellFormedCalls(llm_response) )
    => /\ Map(IdOf, tool_log) = Map(IdOf, prepare_tools_call(llm_response))
       /\ Map(ToolCallIdOf, SelectSeq(conv, IsTool)) =
             Map(IdOf, prepare_tools_call(llm_response))

\* C4: loop termination.  When the first response carries no tool calls the
\* session completes (start returns) after exactly one completion and no
\* tool call.
C4_LoopTermination ==
    ( /\ pc \in {"loop", "send_followup", "done", "raised"}
      /\ completions # <<>>
      /\ CarriesNoToolCalls(completions[1].response) )
    => /\ pc \in {"loop", "done"}
       /\ Len(completions) = 1
       /\ tool_log = <<>>

\* C5: abort on a missing completion.  Once a completion, the initial one or
\* a follow-up, has returned nothing, no further completion and no tool call
\* is made, nothing is raised, and the only step left is for start to return.
MissingCompletion == completions # <<>> /\ ~Returned(Last(completions).response)
C5_AbortOnMissingCompletion ==
    /\ [](MissingCompletion => pc \in {"loop", "done"} /\ error = "none")
    /\ [][MissingCompletion =>
            /\ completions' = completions
            /\ tool_log' = tool_log
            /\ conv' = conv
            /\ pc' = "done"
            /\ error' = "none"]_vars

\* C5 witness: a follow-up completion returned nothing and start has returned
C5_Witness ==
    /\ pc = "done"
    /\ Len(completions) = 2
    /\ ~Returned(completions[2].response)
    /\ Len(tool_log) = 1

\* C6: every completion that returned a response is followed by one
\* assistant message.  In a finished session whose responses all read as
\* messages, there are as many assistant messages as returned responses.
C6_OneAssistantMessagePerResponse ==
    ( /\ pc = "done"
      /\ \A i \in 1..Len(completions) :
            completions[i].response.kind \in {"message", "none"} )
    => Len(SelectSeq(conv, IsAssistant)) = Len(SelectSeq(completions, ReturnedRecord))

\* C8: tool discovery happens once, before the first completion, and every
\* completion is given the discovered list, which is never changed afterwards.
C8_ToolsDiscoveredOnceAndReused ==
    /\ [](/\ discoveries <= 1
          /\ completions # <<>> => discoveries = 1
          /\ \A i \in 1..Len(completions) : completions[i].tools = tools_info)
    /\ [][pc # "start" => tools_info' = tools_info /\ discoveries' = discoveries]_vars

\* C8 witness: two completions were made with a non-empty discovered list
C8_Witness ==
    /\ Len(completions) = 2
    /\ tools_info # <<>>
    /\ discoveries = 1

----------------------------------------------------------------------------
(* Properties of the Conversation (checked under ConvSpec) *)

\* C7: the Conversation is append-only.  Every operation leaves the message
\* list unchanged or appends exactly one message at its end, earlier messages
\* keeping their place and content, and get_messages lists them in
\* insertion order.
C7_AppendOnly ==
    [][ /\ \/ conv' = conv
           \/ /\ Len(conv') = Len(conv) + 1
              /\ SubSeq(conv', 1, Len(conv)) = conv
        /\ Len(get_messages(conv')) = Len(conv')
        /\ \A i \in 1..Len(conv') : get_messages(conv')[i].value = conv'[i] ]_vars

\* C7 witness: all three operations have appended, and the last
\* add_assistant_message left the list as it was
C7_Witness ==
    /\ pc = "idle"
    /\ Len(conv) >= 3
    /\ {"user", "assistant", "tool"} \subseteq {conv[i].role : i \in 1..Len(conv)}
    /\ error = "KeyError"

----------------------------------------------------------------------------
(* Properties of the ToolExecutor's routing (checked under RouteSpec) *)

\* C9: namespacing round-trip.  For every configured server s and every
\* function f it exposes, a call_tool request for the catalog name "s-f" is
\* routed to server s with function name f.
C9_NamespacingRoundTrip ==
    \A sv \in Range(clients) : \A fn \in Range(server_tools[sv]) :
        (n_requests > 0 /\ request = NamespacedName(sv, fn))
        => routed = <<[server |-> sv, function |-> fn]>>

\* C10: unknown-namespace call.  A request whose server part has no client
\* fails with an error that quotes the unknown server and the full requested
\* name; a request without separator fails too; neither invokes a client.
C10_UnknownNamespace ==
    /\ (n_requests > 0 /\ ~HasSeparator(request)) =>
          /\ route_error.kind = "format"
          /\ routed = <<>>
    /\ (n_requests > 0 /\ HasSeparator(request)
          /\ split_first(request).tool_name \notin Range(clients)) =>
          /\ route_error.kind = "not_found"
          /\ routed = <<>>
          /\ {split_first(request).tool_name, request} \subseteq route_error.quotes

\* the last call_tool request names a server that has a client
Registered ==
    /\ n_requests > 0
    /\ HasSeparator(request)
    /\ split_first(request).tool_name \in Range(clients)

C12_DiscoveryIdempotent ==
    /\ [](definitions_got > 0 =>
            all_tools_def =
               Flatten([i \in 1..Len(clients) |->
                           [j \in 1..Len(server_tools[clients[i]]) |->
                               ToolDef(clients[i] \o <<"-">> \o
                                       server_tools[clients[i]][j])]]))
    /\ [][ /\ server_tools' = server_tools
           /\ (definitions_got > 0 /\ definitions_got' = definitions_got + 1) =>
                 all_tools_def' = all_tools_def ]_vars

\* C12 witness: the catalog of two servers has been fetched twice
C12_Witness ==
    /\ definitions_got = 2
    /\ Len(clients) = 2
    /\ Len(all_tools_def) >= 3

----------------------------------------------------------------------------
(* Properties of the LLMExecutor (checked under ExecSpec) *)

\* the configuration in the environment cannot be built into a client
ConfigurationProblem(e) ==
    \/ e.provider = "other"
    \/ ~e.api_key_set
    \/ ~e.numbers_ok
    \/ e.provider = "openai" /\ e.base_url_blank

\* an error of the LLM layer: LLMError or one of its subclasses
LLMLayerErrors ==
    {"LLMAuthenticationError", "LLMRateLimitError", "LLMTimeoutError", "LLMConnectionError",
     "LLMAPIError", "LLMResponseError", "LLMModelError", "LLMTokenLimitError"}

\* C13: get_completion never raises on a configuration problem.  A call
\* made without a client while the environment's configuration is invalid
\* returns nothing and leaves the executor without a client.
C13_ConfigurationProblemReturnsNothing ==
    [][ (n_completions' = n_completions + 1 /\ llm_client = NoClient
           /\ ConfigurationProblem(env)) =>
          (completion'.out = "none" /\ llm_client' = NoClient) ]_vars

\* C14: client construction is attempted at most once.  After a first
\* construction that failed without raising, a later get_completion returns
\* nothing and attempts no construction, whatever the environment has become;
\* once a client exists every later call uses it.
C14_ClientBuiltAtMostOnce ==
    /\ [][ (n_completions' = n_completions + 1 /\ builds = 1 /\ llm_client = NoClient
             /\ completion.out = "none") =>
            (builds' = builds /\ completion'.out = "none") ]_vars
    /\ [][ llm_client # NoClient =>
            /\ llm_client' = llm_client
            /\ builds' = builds
            /\ chat_call' # <<>> => chat_call'[1].client = llm_client ]_vars

\* C15: an LLM-layer error raised by chat_completion is caught inside
\* get_completion, which returns nothing; what get_completion raises is never
\* an LLM-layer error.
C15_ChatErrorsReturnNothing ==
    /\ (chat_call # <<>> /\ chat_call[1].raised \in LLMLayerErrors) => completion.out = "none"
    /\ completion.out = "raised" => completion.error \notin LLMLayerErrors

\* C15 witness: a second completion on the same client ended in a timeout
\* and returned nothing
C15_Witness ==
    /\ n_completions = 2
    /\ chat_calls = 2
    /\ chat_call # <<>>
    /\ chat_call[1].raised = "LLMTimeoutError"
    /\ completion.out = "none"

----------------------------------------------------------------------------
(* Properties of the response parsers (checked under ParserSpec) *)

\* the response reads as one choice or prediction
ReadsAsMessage(response) == response.kind \in {"message", "prediction"}
\* its tool-call collection is present and not empty
NonEmptyToolCalls(response) ==
    ReadsAsMessage(response) /\ response.has_tool_calls /\ response.tool_calls # <<>>
WellFormedCall(tc) == tc.form = "ok"
AsRequest(tc) == [id |-> tc.id, name |-> tc.name, arguments |-> "mapping"]

\* C16: partial-call resilience.  prepare_tools_call returns exactly the
\* well-formed tool calls of the response, in provider order, each as a
\* complete request with parsed arguments; a malformed call is skipped and
\* neither fails the batch nor leaves an incomplete entry.
C16_PartialCallResilience ==
    (prepare_out.called /\ ReadsAsMessage(resp_in.response)) =>
        /\ prepare_out.raised = "none"
        /\ prepare_out.calls =
              Map(AsRequest, SelectSeq(resp_in.response.tool_calls, WellFormedCall))

\* C17: need_tools_call is true exactly when the response's choice or
\* prediction carries a non-empty tool-call collection, and it never raises,
\* for either parser.
C17_NeedToolsCallIffNonEmpty ==
    need_out.called =>
        /\ need_out.raised = "none"
        /\ need_out.value = NonEmptyToolCalls(resp_in.response)

----------------------------------------------------------------------------
(* Properties of the tool-result parser (checked under ResultSpec) *)

\* the raw result breaks one of the structural rules
StructurallyInvalid(r) ==
    \/ ~r.is_dict
    \/ ~r.has_isError
    \/ r.content_kind = "notlist"
    \/ \E i \in 1..Len(r.items) : ~r.items[i].is_dict \/ ~r.items[i].has_type
    \/ r.sc_kind = "other"

\* C18: parse raises a structural-validation error, and returns nothing,
\* whenever the raw result is not a mapping, lacks isError, has a content
\* that is not a list of mappings each with a type, or has a
\* structuredContent that is neither a mapping nor null.
C18_InvalidStructureRaises ==
    (parse_out.called /\ StructurallyInvalid(raw_in)) =>
        /\ parse_out.raised = "ValueError"
        /\ parse_out.result = NoResult

\* C18 witness: parse was called on a result whose second content item,
\* after a text item, has no type
C18_Witness ==
    /\ parse_out.called
    /\ raw_in.has_isError
    /\ Len(raw_in.items) = 2
    /\ raw_in.items[1] = TextItem(<<"o", "k">>)
    /\ raw_in.items[2] = UntypedItem

\* C19: for a structurally valid raw result, success equals not isError,
\* error_info is set exactly when success is false, and summary is the text
\* "Tool execution failed" exactly when success is false.
C19_ResultSelfConsistent ==
    (parse_out.called /\ ~StructurallyInvalid(raw_in)) =>
        /\ parse_out.raised = "none"
        /\ parse_out.result.success = ~raw_in.isError
        /\ parse_out.result.error_info # <<>> <=> ~parse_out.result.success
        /\ parse_out.result.summary = <<"Tool execution failed">>
              <=> ~parse_out.result.success

\* C19 witness: a failed result and a text-less successful one are both
\* parsed; this is the failed one, with its message taken from the content
C19_Witness ==
    /\ parse_out.called
    /\ parse_out.raised = "none"
    /\ raw_in.isError
    /\ parse_out.result.error_info # <<>>
    /\ parse_out.result.error_info[1].message = <<"o", "k">>

\* the text items of a content list, read as the claim reads them
IsTextTyped(item) == item.type = "text"
\* the summary of a successful result with this text, as the claim reads it
ClaimedSummary(text) ==
    IF Len(text) > 100
    THEN <<"Tool executed successfully: ">> \o SubSeq(text, 1, 97) \o <<".", ".", ".">>
    ELSE <<"Tool executed successfully: ">> \o text

\* C20 as stated: for a successful raw result, text_content is the
\* space-joined text of every content item of type "text", in list order,
\* and summary is "Tool executed successfully: " followed by text_content,
\* cut to 97 characters plus "..." when it is longer than 100.
C20_TextAndSummary_AsStated ==
    (parse_out.called /\ parse_out.raised = "none" /\ ~raw_in.isError) =>
        /\ parse_out.result.text_content =
              JoinSpace(Map(ItemText, SelectSeq(raw_in.items, IsTextTyped)))
        /\ parse_out.result.summary = ClaimedSummary(parse_out.result.text_content)

\* the texts that are not empty, joined by single spaces
RECURSIVE NonEmptyTextsJoined(_)
NonEmptyTextsJoined(items) ==
    IF items = <<>> THEN <<>>
    ELSE LET rest == NonEmptyTextsJoined(Tail(items))
             item == Head(items)
         IN IF item.type # "text" \/ item.text = <<>> THEN rest
            ELSE IF rest = <<>> THEN item.text
            ELSE item.text \o <<" ">> \o rest

\* C20 (amended): for a successful raw result, text_content is the
\* space-joined text of every content item of type "text" whose text is not
\* empty, in list order; when text_content is not empty, summary is "Tool
\* executed successfully: " followed by text_content, cut to 97 characters
\* plus "..." when it is longer than 100; when it is empty, summary is not of
\* that form (it is derived from the structured data, or generic).  A single
\* text item "ok" yields text_content "ok" and summary "Tool executed
\* successfully: ok".
C20_TextAndSummary ==
    /\ (parse_out.called /\ parse_out.raised = "none" /\ ~raw_in.isError) =>
          /\ parse_out.result.success
          /\ parse_out.result.text_content = NonEmptyTextsJoined(raw_in.items)
          /\ IF parse_out.result.text_content # <<>>
             THEN parse_out.result.summary = ClaimedSummary(parse_out.result.text_content)
             ELSE /\ parse_out.result.summary[1] # "Tool executed successfully: "
                  /\ parse_out.result.summary[1] \in
                        {"Tool executed successfully",
                         "Tool executed successfully with result: ",
                         "Tool executed successfully with "}
    /\ (parse_out.called /\ raw_in = RawResult(FALSE, <<TextItem(<<"o", "k">>)>>)) =>
          /\ parse_out.result.success
          /\ parse_out.result.text_content = <<"o", "k">>
          /\ parse_out.result.summary = <<"Tool executed successfully: ", "o", "k">>

\* C20 witness: two text items whose joined text is one character over the
\* limit were parsed, and the summary ends in the ellipsis
C20_Witness ==
    /\ parse_out.called
    /\ parse_out.result.success
    /\ Len(raw_in.items) = 2
    /\ Len(parse_out.result.text_content) = 101
    /\ Len(parse_out.result.summary) = 101
    /\ parse_out.result.summary[101] = "."

----------------------------------------------------------------------------
(* Properties of the tool converters (checked under ConverterSpec) *)

\* the first tool of the list that fails validation
OffendingTool(tools) == tools[FirstInvalid(tools)]

\* C21: convert_tools on n tool definitions returns exactly n converted
\* entries in input order, or fails with a ToolValidationError that carries
\* the offending tool; and a request that was given a non-empty tool list is
\* never sent with fewer tools or with no tools.
C21_NoToolDropped ==
    /\ convert_out.called =>
          \/ /\ ~convert_out.error.raised
             /\ Len(convert_out.converted) = Len(tools_in.tools)
             /\ \A i \in 1..Len(tools_in.tools) :
                    convert_out.converted[i].name = tools_in.tools[i].name
          \/ /\ convert_out.error.raised
             /\ convert_out.error.tool = OffendingTool(tools_in.tools)
    /\ (request_out.built /\ tools_in.tools # <<>>) =>
          /\ request_out.has_tools
          /\ Len(request_out.tools) = Len(tools_in.tools)

----------------------------------------------------------------------------
(* Properties of the provider clients' error mapping (checked under HttpSpec) *)

\* the body's error code or message mentions the token or context length
MentionsTokenLimit(body) ==
    body.kind = "error" /\ (body.code = "context_length_exceeded" \/ body.message = "token")

\* C22: a non-success HTTP response ends in one raised LLM error: 401 an
\* authentication error; 429 a rate-limit error carrying the retry-after hint
\* when the response has one; 404 a model-not-found error; otherwise a body
\* mentioning token/context length a token-limit error; anything else a
\* generic API error carrying the status code and the provider's error code
\* and message.
C22_HttpErrorMapping ==
    http_out.called =>
        LET response == http_in.response
        IN  /\ IsInstance(http_out.cls, "LLMError")
            /\ CASE response.status = 401 -> http_out.cls = "LLMAuthenticationError"
                 [] response.status = 429 ->
                      /\ http_out.cls = "LLMRateLimitError"
                      /\ response.retry_after = "number" => http_out.retry_after = "number"
                 [] response.status = 404 -> http_out.cls = "LLMModelError"
                 [] MentionsTokenLimit(response.body) -> http_out.cls = "LLMTokenLimitError"
                 [] OTHER ->
                      /\ http_out.cls = "LLMAPIError"
                      /\ http_out.status_code = response.status
                      /\ response.body.kind = "error" =>
                            /\ http_out.error_code = response.body.code
                            /\ http_out.message = error_message_of(response.body)

----------------------------------------------------------------------------
(* Properties of the configuration parser (checked under ContextSpec) *)

ChainAccepted(root) == root.first = "mcpserver" /\ root.second = "stdio" /\ root.tools_is_list
\* the required fields an entry lacks or has empty
MissingFields(entry) ==
    {k \in RequiredKeys : k \notin entry.keys \/ entry[k] = Empty}
Invalid(entry) == MissingFields(entry) # {}

\* C23: a parser failure leaves no partial configuration.  If parse raises,
\* tools_config is as it was before parse and no Session is created or
\* started.
C23_NoPartialConfiguration ==
    [][(~run_out.parsed /\ run_out'.parsed /\ run_out'.error.raised) =>
          /\ ctx_tools_config' = ctx_tools_config
          /\ ~run_out'.session_created
          /\ ~run_out'.session_started]_vars

\* C24: an entry is accepted only if name, command and path are all present
\* and non-empty; an entry with an absent or empty field makes parse fail
\* with an error that names the missing field and the offending entry.
C24_EntriesNeedAllFields ==
    (run_out.parsed /\ ChainAccepted(root_cmd)) =>
        LET tools == root_cmd.tools
        IN  /\ \A i \in 1..Len(ctx_tools_config) : ~Invalid(ctx_tools_config[i])
            /\ (\E i \in 1..Len(tools) : Invalid(tools[i])) =>
                  /\ run_out.error.raised
                  /\ \E i \in 1..Len(tools) :
                        /\ Invalid(tools[i])
                        /\ run_out.error.entry = <<tools[i]>>
                        /\ MissingFields(tools[i]) \subseteq run_out.error.names

\* C28: server names are unique routing namespaces.  After parsing and
\* ToolExecutor construction no two accepted entries share a name and there
\* are as many clients as entries in tools_config.
C28_OneClientPerServer ==
    executor_clients.constructed =>
        /\ \A i, j \in 1..Len(ctx_tools_config) :
              ctx_tools_config[i].name = ctx_tools_config[j].name => i = j
        /\ Len(executor_clients.clients) = Len(ctx_tools_config)
        /\ \A i \in 1..Len(ctx_tools_config) :
              ctx_tools_config[i].name \in Range(executor_clients.clients)

----------------------------------------------------------------------------
(* Properties of the namespaced catalog (checked under RouteSpec) *)

\* C27: in the catalog returned by get_tools_definition every namespaced
\* name identifies exactly one (server, function) pair: no two distinct
\* pairs of a configured server and one of its tools produce the same name.
C27_NamespacedNameIdentifiesOnePair ==
    [][(definitions_got = 0 /\ definitions_got' = 1) =>
          \A sv1 \in Range(clients), sv2 \in Range(clients) :
              \A fn1 \in Range(server_tools[sv1]), fn2 \in Range(server_tools[sv2]) :
                  ( /\ ToolDef(NamespacedName(sv1, fn1)) \in Range(all_tools_def')
                    /\ ToolDef(NamespacedName(sv2, fn2)) \in Range(all_tools_def')
                    /\ NamespacedName(sv1, fn1) = NamespacedName(sv2, fn2) )
                  => (sv1 = sv2 /\ fn1 = fn2)]_vars

----------------------------------------------------------------------------
(* Properties of the Session's resources and termination (checked under Spec) *)

Ended == pc \in {"done", "raised"}

SomeCallsSkipped(response) ==
    /\ need_tools_call(response)
    /\ Len(prepare_tools_call(response)) < Len(response.tool_calls)

\* C26: skipped tool calls are not fatal to the Session.  When
\* prepare_tools_call returns a strict subset of the response's tool calls,
\* possibly the empty list, the Session executes exactly the returned calls
\* and then requests the next completion; it raises only if one of the calls
\* it executed failed.
C26_SkippedCallsNotFatal ==
    [][(pc = "loop" /\ SomeCallsSkipped(llm_response)) =>
          LET returned == prepare_tools_call(llm_response)
              executed == SubSeq(tool_log', Len(tool_log) + 1, Len(tool_log'))
          IN  \/ /\ pc' = "send_followup"
                 /\ Len(executed) = Len(returned)
                 /\ \A i \in 1..Len(returned) :
                        /\ executed[i].id = returned[i].id
                        /\ executed[i].name = returned[i].name
              \/ /\ pc' = "raised"
                 /\ executed # <<>>
                 /\ Len(executed) <= Len(returned)]_vars

\* how far Session.start has come: it only ever moves forward
Position(p) ==
    CASE p = "start" -> 0
      [] p = "send_initial" -> 1
      [] p = "loop" -> 2
      [] p = "send_followup" -> 3
      [] OTHER -> 4

\* C29: Session.start always terminates.  Whatever the LLM answers,
\* including a tool call on every turn, the session reaches a terminal state
\* after at most two completion calls and at most one tool execution: the
\* two counts never exceed 2 and 1, every step moves the session forward
\* through its five positions, and it can always take a step until it has
\* ended.
C29_StartTerminates ==
    /\ [](Len(completions) <= 2 /\ Len(tool_log) <= 1)
    /\ [][Position(pc') > Position(pc)]_vars
    /\ [](Ended \/ ENABLED Next)

\* the LLM asked for a tool on both turns, and the session has ended
C29_Witness ==
    /\ Ended
    /\ Len(completions) = 2
    /\ Len(tool_log) = 1
    /\ \A i \in 1..2 : need_tools_call(completions[i].response)

----------------------------------------------------------------------------
(* Properties of the catalog and of the tools a completion carries *)

\* the number of tools the first n clients expose
RECURSIVE ToolCount(_, _, _)
ToolCount(cls, catalogs, n) ==
    IF n = 0 THEN 0 ELSE ToolCount(cls, catalogs, n - 1) + Len(catalogs[cls[n]])

\* where a server name first occurs in the configured list
FirstPosition(config, name) ==
    CHOOSE i \in 1..Len(config) :
        config[i] = name /\ \A k \in 1..(i - 1) : config[k] # name

C32_ToolsForwardedIffEnabledAndSupplied ==
    [][chat_calls' = chat_calls + 1 =>
         /\ chat_call' # <<>>
         /\ (chat_call'[1].tools.is_none
               <=> ~(env.tools_enabled /\ chat_call'[1].supplied.list # <<>>))
         /\ (~chat_call'[1].tools.is_none =>
                chat_call'[1].tools.list = chat_call'[1].supplied.list)
         /\ (chat_call'[1].tools.is_none => chat_call'[1].tools.list = <<>>)]_vars

\* C32 witness: a completion was given a non-empty list while tools were
\* disabled, and the client was called without tools
C32_Witness ==
    /\ chat_call # <<>>
    /\ chat_call[1].supplied.list # <<>>
    /\ ~chat_call[1].config.tools_enabled
    /\ chat_call[1].tools = NoTools

\* C33: the LLM configuration is a snapshot taken once.  Every completion of
\* one executor is made with the same provider, endpoint and tools_enabled
\* values, those of the client built first, whatever the environment has
\* become between two completions.
C33_ConfigurationReadOnce ==
    /\ [](chat_call # <<>> => chat_call[1].config = chat_call[1].client.config)
    /\ [][(chat_call # <<>> /\ chat_call' # <<>>) =>
             chat_call'[1].config = chat_call[1].config]_vars

----------------------------------------------------------------------------
(* Properties of the message log of one Session (checked under Spec) *)

\* the assistant message nearest before position i, 0 if there is none
NearestAssistant(msgs, i) ==
    LET before == {k \in 1..(i - 1) : msgs[k].role = "assistant"}
    IN IF before = {} THEN 0 ELSE CHOOSE k \in before : \A m \in before : m <= k

\* the tool messages that answer call c of the assistant message at k
ResultsOf(msgs, k, c) ==
    {i \in 1..Len(msgs) :
        /\ msgs[i].role = "tool"
        /\ NearestAssistant(msgs, i) = k
        /\ msgs[i].tool_call_id = msgs[k].tool_calls[c].id}

LoggedToolCalls ==
    /\ conv # <<>>
    /\ conv[Len(conv)].role = "assistant"
    /\ conv[Len(conv)].tool_calls # <<>>

\* C35: the loop decision and the message log agree.  When the loop test is
\* made, need_tools_call holds exactly when the assistant message logged for
\* the response carries a non-empty tool_calls list, and the Session takes
\* the tool-execution step only for a response logged with tool calls.
C35_LoopDecisionAgreesWithLog ==
    /\ [](pc = "loop" => (need_tools_call(llm_response) <=> LoggedToolCalls))
    /\ [][(pc = "loop" /\ pc' # "done") => LoggedToolCalls]_vars

----------------------------------------------------------------------------
(* Properties of the command chain (checked under ContextSpec) *)

MarkersPresent(root) == root.first = "mcpserver" /\ root.second = "stdio"

C37_SeededWithSystemAndUser ==
    pc = "send_initial" =>
        /\ Len(conv) = 2
        /\ conv[1].role = "system"
        /\ conv[1].content \in SystemTexts
        /\ conv[2] = UserMessage(UserText)

----------------------------------------------------------------------------
(* Properties of a failing tool call (checked under Spec) *)

\* the errors of the tool step: those call_tool raises, and the structural
\* error ToolResultParser.parse raises on an invalid result
ToolStepErrors == CallToolErrors \cup {"ValueError"}

====
